---- MODULE Spec2Model ----
(***************************************************************************)
(* cargo-cross: toolchain acquisition (download.rs), per-platform          *)
(* provisioning (platform/*.rs) and the per-target orchestrator (main.rs). *)
(*                                                                         *)
(* The state machines of this module:                                      *)
(*   SpecDL    download_file and the request/stream retry loops            *)
(*   SpecEx    download_and_extract, finalize_extraction and the           *)
(*             provisioners' presence checks, over several runs            *)
(*   SpecOrch  run / execute_target over a list of targets                 *)
(*   SpecEnv   check_preconfigured_env, setup_cross_env and the            *)
(*             composition of the environment of the build command         *)
(*   SpecRun   the runner a provisioner configures                         *)
(*   SpecExp   expand_target_list and expand_targets                       *)
(*   SpecFolder  get_linux_bin_prefix and get_linux_folder_name            *)
(*   SpecFind  find_file_by_pattern and the tool prefix of osxcross        *)
(*   SpecZip   extract_zip_archive                                         *)
(*   SpecRecover  the runs of download_and_extract on one cache directory  *)
(* Each specification keeps the variables of the other machines fixed.     *)
(***************************************************************************)
EXTENDS Integers, Sequences, FiniteSets, TLC

(***************************************************************************)
(* Program constants                                                       *)
(***************************************************************************)
MAX_RETRIES == 3

INITIAL_RETRY_DELAY == 1

(***************************************************************************)
(* Bounds of the model                                                     *)
(***************************************************************************)
\* size T of the remote resource, in bytes
TotalSize == 3

\* number of consecutive invocations of the tool against the same cache
MaxRuns == 2

\* number of targets on the command line
NumTargets == 3

\* number of --target arguments on the command line
MaxTargetArgs == 2

\* number of entries of a zip archive
MaxZipEntries == 3

(***************************************************************************)
(* Files and the remote resource                                           *)
(***************************************************************************)
\* the bytes of the remote resource: T distinct bytes
Resource == [i \in 1..TotalSize |-> i]

\* a destination left by an earlier, unrelated download
OldData == <<0>>

NoFile == [exists |-> FALSE, data |-> <<>>]

FileOf(d) == [exists |-> TRUE, data |-> d]

Prefix(s, n) == SubSeq(s, 1, n)

Suffix(s, pos) == SubSeq(s, pos + 1, Len(s))

IsPrefixOf(p, s) == Len(p) <= Len(s) /\ p = Prefix(s, Len(p))

VARIABLES
    pc,            \* position of the process inside download_file
    phase,         \* which call of send_request_with_retry_range is active
    urlOk,         \* the URL parses (client.get(url) builds a request)
    acceptRanges,  \* the server honours Range headers
    tmp,           \* the file <dest>.tmp
    dest,          \* the file <dest>
    already,       \* already_downloaded, read from the temp file at start
    startTmp,      \* contents of <dest>.tmp when download_file started
    downloaded,    \* download_with_resume: downloaded
    attempt,       \* download_with_resume: attempt
    reqAttempt,    \* send_request_with_retry_range: attempt
    inflight,      \* Range offset of the GET in flight (0: no Range header)
    delay,         \* length of the backoff sleep in progress (0: none)
    body,          \* bytes of the response body not yet delivered
    respStatus,    \* status of the response being streamed
    result,        \* the result being handled, or the one that ended the run
    consecFail,    \* consecutive retryable send failures seen so far
    breaks,        \* stream breaks seen so far
    firstRange,    \* Range offset of the first GET of download_with_resume
    rangedFull,    \* a ranged GET was answered 200
    streamDone     \* the body stream of the last response reached its end

dlVars == <<pc, phase, urlOk, acceptRanges, tmp, dest, already, startTmp,
            downloaded, attempt, reqAttempt, inflight, delay, body,
            respStatus, result, consecFail, breaks, firstRange, rangedFull,
            streamDone>>

VARIABLES
    exPc,       \* position of the process inside a provisioner's setup
    caller,     \* the provisioner: "android", "linux" or "darwin"
    layout,     \* the layout of the remote archive
    destDir,    \* the toolchain folder in the cache directory
    tempDir,    \* the scratch directory <dest>.tmp
    archive,    \* the archive file next to the scratch directory
    nextEntry,  \* index of the next archive entry to unpack
    exErr,      \* the step whose error this run returned ("none" if none)
    dest0,      \* the toolchain folder as it was when this run started
    skipped,    \* the presence check of this run accepted the folder
    exRuns,     \* number of runs started so far
    sigPending, \* the signal delivered and not yet acted upon (0 if none)
    exExit,     \* the code the process exited with (-1 if it did not)
    fetched,    \* this run started a download
    okBefore    \* an earlier run on this cache directory returned Ok

\* the signal state and the history of the runs
exSig == <<sigPending, exExit, fetched, okBefore>>

exVars == <<exPc, caller, layout, destDir, tempDir, archive, nextEntry,
            exErr, dest0, skipped, exRuns, exSig>>

VARIABLES
    orPc,          \* position of the process inside run
    cur,           \* index of the target the loop of run is at
    stage,         \* per target: the step of execute_target it is in
    built,         \* per target: its build output is in the target directory
    cached,        \* per target: its toolchain is in the cache directory
    cleanCache,    \* args.clean_cache
    userBuildStd,  \* args.build_std.is_some() || args.panic_immediate_abort
    needsBuildStd, \* execute_target: needs_build_std
    cargoCode,     \* exit code of the last downstream build command
    exitCode       \* exit code of the process (-1 while it runs)

orVars == <<orPc, cur, stage, built, cached, cleanCache, userBuildStd,
            needsBuildStd, cargoCode, exitCode>>

VARIABLES
    evPc,         \* position of the process between check_preconfigured_env
                  \* and the spawn of the downstream build command
    target,       \* the target triple
    penv,         \* the environment of the process
    cli,          \* the options given on the command line
    args,         \* the parsed arguments
    tcCached,     \* the toolchain of the target is in the cache directory
    crossEnv,     \* execute_target: cross_env
    composed,     \* the map build_cargo_env returns
    provisioner,  \* the provisioner strategy that ran ("none" if none did)
    httpIssued    \* an HTTP request was issued

envVars == <<evPc, target, penv, cli, args, tcCached, crossEnv, composed,
             provisioner, httpIssued>>

VARIABLES
    rnPc,      \* position of the process inside a provisioner's setup
    rnConfig,  \* target_config: os, arch and libc of the target
    rnHost,    \* the host platform: os and arch
    rnNeeds,   \* args.command.needs_runner()
    rnTools,   \* what the host offers: docker, wine, the QEMU binary
    rnCalls,   \* the runner strategies configured by set_runner, in order
    rnHttp     \* a download of the QEMU binaries was started

rnVars == <<rnPc, rnConfig, rnHost, rnNeeds, rnTools, rnCalls, rnHttp>>

VARIABLES
    xpPc,        \* position of the process inside expand_target_list
    xpKeys,      \* TARGETS.keys() in the order the map hands them over
    xpTargets,   \* the --target arguments of the command line
    xpNext,      \* index of the next argument of the outer loop
    xpParts,     \* the pieces of the current argument not yet looked at
    xpPart,      \* the pattern expand_targets was last called with
    xpExpanded,  \* what that call returned
    xpResult     \* expand_target_list: result

xpVars == <<xpPc, xpKeys, xpTargets, xpNext, xpParts, xpPart, xpExpanded,
            xpResult>>

VARIABLES
    fdPc,           \* position of the process in the derivation of the names
    fdArch,         \* target_config.arch
    fdLibc,         \* target_config.libc
    fdAbi,          \* target_config.abi
    fdVersion,      \* args.glibc_version
    fdOther,        \* args.glibc_version of another invocation
    fdPrefix,       \* get_linux_bin_prefix: result
    fdFolder,       \* get_linux_folder_name: result
    fdFolderOther   \* get_linux_folder_name: result of the other invocation

fdVars == <<fdPc, fdArch, fdLibc, fdAbi, fdVersion, fdOther, fdPrefix,
            fdFolder, fdFolderOther>>

VARIABLES
    ffPc,       \* position of the process inside the lookup of the compiler
    ffDir,      \* the names of the bin directory in the order read_dir gives
    ffPattern,  \* find_file_by_pattern: pattern
    ffNext,     \* index of the next directory entry
    ffFound,    \* find_file_by_pattern: result
    ffPrefix,   \* setup_osxcross: tool_prefix
    ffErr       \* reading the directory has failed

ffVars == <<ffPc, ffDir, ffPattern, ffNext, ffFound, ffPrefix, ffErr>>

VARIABLES
    zpPc,       \* position of the process inside extract_zip_archive
    zpArchive,  \* the entries of the zip archive
    zpNext,     \* index of the next entry
    zpTree,     \* the paths that exist below the destination
    zpModes,    \* files_by_unix_mode
    zpApplied   \* the modes set so far, in the order of the calls

zpVars == <<zpPc, zpArchive, zpNext, zpTree, zpModes, zpApplied>>

VARIABLES
    rcPc,       \* position of the run inside download_and_extract
    rcFile,     \* length of the archive file next to the scratch directory
    rcCorrupt,  \* the archive file is not a prefix of the remote archive
    rcTemp,     \* the scratch directory exists
    rcDest,     \* the toolchain folder exists
    rcGood,     \* the run has a working network and is not disturbed
    rcRanges,   \* the server supports range requests
    rcRuns,     \* number of runs started
    rcPos,      \* download_archive: already_downloaded
    rcStatus    \* the status of the response to the resuming request

rcVars == <<rcPc, rcFile, rcCorrupt, rcTemp, rcDest, rcGood, rcRanges,
            rcRuns, rcPos, rcStatus>>

\* the variables of the functions that are checked on their own
fnVars == <<xpVars, fdVars, ffVars, zpVars, rcVars>>

\* the variables the downloader leaves alone
dlRest == <<exVars, orVars, envVars, rnVars, fnVars>>

\* the variables the provisioner leaves alone
exRest == <<dlVars, orVars, envVars, rnVars, fnVars>>

\* the variables the orchestrator leaves alone
orRest == <<dlVars, exVars, envVars, rnVars, fnVars>>

\* the variables the composition of the environment leaves alone
envRest == <<dlVars, exVars, orVars, rnVars, fnVars>>

\* the variables the choice of a runner leaves alone
rnRest == <<dlVars, exVars, orVars, envVars, fnVars>>

\* the variables the expansion of the target patterns leaves alone
xpRest ==
    <<dlVars, exVars, orVars, envVars, rnVars, fdVars, ffVars, zpVars, rcVars>>

\* the variables the derivation of the toolchain names leaves alone
fdRest ==
    <<dlVars, exVars, orVars, envVars, rnVars, xpVars, ffVars, zpVars, rcVars>>

\* the variables the lookup of the compiler leaves alone
ffRest ==
    <<dlVars, exVars, orVars, envVars, rnVars, xpVars, fdVars, zpVars, rcVars>>

\* the variables the extraction of a zip archive leaves alone
zpRest ==
    <<dlVars, exVars, orVars, envVars, rnVars, xpVars, fdVars, ffVars, rcVars>>

\* the variables the runs on one cache directory leave alone
rcRest ==
    <<dlVars, exVars, orVars, envVars, rnVars, xpVars, fdVars, ffVars, zpVars>>

vars == <<dlVars, exVars, orVars, envVars, rnVars, fnVars>>

(***************************************************************************)
(* Directories: a directory is a set of entries, each a path below it     *)
(***************************************************************************)
NoDir == [exists |-> FALSE, ents |-> {}]

DirOf(es) == [exists |-> TRUE, ents |-> es]

Ent(path, isDir) == [p |-> path, d |-> isDir]

\* the top-level entries of a directory (collect_dir_entries)
TopEntries(es) == {e \in es : Len(e.p) = 1}

\* the entries below the top-level entry called n, relative to it
Below(es, n) ==
    {Ent(Tail(e.p), e.d) : e \in {x \in es : Len(x.p) > 1 /\ x.p[1] = n}}

\* the downloader is not in use
DlIdle ==
    /\ pc = "done"
    /\ phase = "probe"
    /\ urlOk = TRUE
    /\ acceptRanges = TRUE
    /\ tmp = NoFile
    /\ dest = NoFile
    /\ already = 0
    /\ startTmp = NoFile
    /\ downloaded = 0
    /\ attempt = 0
    /\ reqAttempt = 0
    /\ inflight = 0
    /\ delay = 0
    /\ body = <<>>
    /\ respStatus = 0
    /\ result = [kind |-> "none", status |-> 0]
    /\ consecFail = 0
    /\ breaks = 0
    /\ firstRange = -1
    /\ rangedFull = FALSE
    /\ streamDone = FALSE

\* no provisioner is in use
ExIdle ==
    /\ exPc = "ready"
    /\ caller = "linux"
    /\ layout = "flat"
    /\ destDir = NoDir
    /\ tempDir = NoDir
    /\ archive = "absent"
    /\ nextEntry = 0
    /\ exErr = "none"
    /\ dest0 = NoDir
    /\ skipped = FALSE
    /\ exRuns = 1
    /\ sigPending = 0
    /\ exExit = -1
    /\ fetched = FALSE
    /\ okBefore = FALSE

Targets == 1..NumTargets

\* the orchestrator is not in use
OrIdle ==
    /\ orPc = "exit"
    /\ cur = 0
    /\ stage = [t \in Targets |-> "Idle"]
    /\ built = [t \in Targets |-> FALSE]
    /\ cached = [t \in Targets |-> FALSE]
    /\ cleanCache = FALSE
    /\ userBuildStd = FALSE
    /\ needsBuildStd = FALSE
    /\ cargoCode = 0
    /\ exitCode = 0

\* Option<T>: None, or Some(v)
None == <<>>

Some(v) == <<v>>

IsSome(o) == o # None

\* the value of an option that is Some
Unwrap(o) == o[1]

\* CrossEnv::new(): CrossEnv::default()
CrossEnvNew ==
    [cc |-> None, cxx |-> None, ar |-> None, linker |-> None,
     runner |-> None, rustflags |-> <<>>, cflags |-> <<>>,
     cxxflags |-> <<>>, ldflags |-> <<>>, extra_env |-> {}]

\* no option on the command line
NoCli ==
    [cc |-> None, cxx |-> None, ar |-> None, linker |-> None,
     cflags |-> None, cxxflags |-> None, ldflags |-> None, rustflags |-> <<>>]

\* the parsed arguments when nothing was asked for
NoArgs ==
    [use_default_linker |-> FALSE, no_toolchain_setup |-> FALSE,
     needs_runner |-> FALSE, cc |-> None, cxx |-> None, ar |-> None,
     linker |-> None, cflags |-> None, cxxflags |-> None, ldflags |-> None,
     rustflags |-> <<>>]

\* the composition of the environment is not in use
EnvIdle ==
    /\ evPc = "done"
    /\ target = <<>>
    /\ penv = {}
    /\ cli = NoCli
    /\ args = NoArgs
    /\ tcCached = FALSE
    /\ crossEnv = CrossEnvNew
    /\ composed = {}
    /\ provisioner = "none"
    /\ httpIssued = FALSE

\* no runner is being chosen
RnIdle ==
    /\ rnPc = "done"
    /\ rnConfig = [os |-> "linux", arch |-> "x86_64", libc |-> "gnu"]
    /\ rnHost = [os |-> "linux", arch |-> "x86_64"]
    /\ rnNeeds = FALSE
    /\ rnTools = [docker |-> FALSE, wine |-> FALSE, qemu |-> "absent"]
    /\ rnCalls = <<>>
    /\ rnHttp = FALSE

\* no target pattern is being expanded
XpIdle ==
    /\ xpPc = "done"
    /\ xpKeys = <<>>
    /\ xpTargets = <<>>
    /\ xpNext = 1
    /\ xpParts = <<>>
    /\ xpPart = <<>>
    /\ xpExpanded = <<>>
    /\ xpResult = <<>>

\* no toolchain name is being derived
FdIdle ==
    /\ fdPc = "done"
    /\ fdArch = "x86_64"
    /\ fdLibc = "musl"
    /\ fdAbi = <<>>
    /\ fdVersion = "2.28"
    /\ fdOther = "2.28"
    /\ fdPrefix = <<>>
    /\ fdFolder = <<>>
    /\ fdFolderOther = <<>>

\* no compiler is being looked up
FfIdle ==
    /\ ffPc = "done"
    /\ ffDir = <<>>
    /\ ffPattern = <<>>
    /\ ffNext = 1
    /\ ffFound = <<>>
    /\ ffPrefix = <<>>
    /\ ffErr = FALSE

\* no zip archive is being extracted
ZpIdle ==
    /\ zpPc = "ok"
    /\ zpArchive = <<>>
    /\ zpNext = 1
    /\ zpTree = {}
    /\ zpModes = <<>>
    /\ zpApplied = <<>>

\* no run on the cache directory is under way
RcIdle ==
    /\ rcPc = "ready"
    /\ rcFile = 0
    /\ rcCorrupt = FALSE
    /\ rcTemp = FALSE
    /\ rcDest = TRUE
    /\ rcGood = TRUE
    /\ rcRanges = TRUE
    /\ rcRuns = 1
    /\ rcPos = 0
    /\ rcStatus = 0

\* none of the functions that are checked on their own is in use
FnIdle == XpIdle /\ FdIdle /\ FfIdle /\ ZpIdle /\ RcIdle

(***************************************************************************)
(* reqwest: what request.send() can return                                 *)
(***************************************************************************)
\* error kinds of reqwest::Error that send() produces; "status" is produced
\* only by error_for_status(), which download.rs never calls
SendErrorKinds == {"timeout", "connect", "request", "redirect", "builder"}

ErrorOf(k) == [ok |-> FALSE, kind |-> k, status |-> 0, body |-> <<>>]

ResponseOf(s, b) == [ok |-> TRUE, kind |-> "response", status |-> s, body |-> b]

\* what the run remembers of a result
NoResult == [kind |-> "none", status |-> 0]

ResultOf(r) == [kind |-> r.kind, status |-> r.status]

\* is_retryable_error that also retries request-builder errors
IsRetryableErrorBuilder(err) ==
    \/ err.kind = "timeout"
    \/ err.kind = "connect"
    \/ err.kind = "request"
    \/ err.kind = "builder"
    \/ (err.kind = "status" /\ err.status >= 500 /\ err.status <= 599)

\* is_retryable_error
IsRetryableError(err) ==
    \/ err.kind = "timeout"
    \/ err.kind = "connect"
    \/ err.kind = "request"
    \/ (err.kind = "status" /\ err.status >= 500 /\ err.status <= 599)

\* StatusCode::is_success
IsSuccess(s) == s >= 200 /\ s <= 299

\* the answers of the server to a GET with Range offset pos (0: no header)
ServerResponses(pos) ==
    {ResponseOf(404, <<>>), ResponseOf(503, <<>>)} \cup
    IF pos = 0 \/ ~acceptRanges
    THEN {ResponseOf(200, Resource)}
    ELSE IF pos < TotalSize
         THEN {ResponseOf(206, Suffix(Resource, pos))}
         ELSE {ResponseOf(416, <<>>)}

\* the results of request.send().await
SendResults(pos) ==
    IF ~urlOk
    THEN {ErrorOf("builder")}
    ELSE ServerResponses(pos) \cup
         {ErrorOf(k) : k \in SendErrorKinds \ {"builder"}}

\* INITIAL_RETRY_DELAY * 2_u32.pow(attempt - 1)
RetryDelay(a) == INITIAL_RETRY_DELAY * 2 ^ (a - 1)

(***************************************************************************)
(* download_file                                                           *)
(***************************************************************************)
Running == pc \notin {"done", "failed", "killed"}

\* create the client and the parent directory, locate <dest>.tmp and read
\* the resume checkpoint from its length; then probe the total size
DownloadFileStart ==
    /\ pc = "start"
    /\ pc' = "send"
    /\ phase' = "probe"
    /\ already' = IF tmp.exists THEN Len(tmp.data) ELSE 0
    /\ startTmp' = tmp
    /\ reqAttempt' = 0
    /\ UNCHANGED <<urlOk, acceptRanges, tmp, dest, downloaded, attempt,
                   inflight, delay, body, respStatus, result, consecFail,
                   breaks, firstRange, rangedFull, streamDone>>
    /\ UNCHANGED dlRest

\* a Range offset taken from the checkpoint read at start, not from the
\* bytes written so far
RangeOfStart(ph, pos) == IF ph = "resume" /\ already > 0 THEN already ELSE 0

\* the Range offset send_request_with_retry_range puts on the request
RangeOf(ph, pos) == IF ph = "resume" /\ pos > 0 THEN pos ELSE 0

\* send_request_with_retry_range: build the request and send it
SendRequest ==
    /\ pc = "send"
    /\ pc' = "await"
    /\ inflight' = RangeOf(phase, downloaded)
    /\ result' = NoResult
    /\ firstRange' = IF phase = "resume" /\ firstRange = -1
                     THEN RangeOf(phase, downloaded)
                     ELSE firstRange
    /\ UNCHANGED <<phase, urlOk, acceptRanges, tmp, dest, already, startTmp,
                   downloaded, attempt, reqAttempt, delay, body, respStatus,
                   consecFail, breaks, rangedFull, streamDone>>
    /\ UNCHANGED dlRest

\* the status test of send_request_with_retry_range
AcceptedStatus(s) == IsSuccess(s) \/ s = 206

\* a retry test that allows one attempt more
GivesUpLate(err, a) == ~IsRetryableError(err) \/ a = MAX_RETRIES + 1

\* the retry test of send_request_with_retry_range
GivesUp(err, a) == ~IsRetryableError(err) \/ a = MAX_RETRIES

\* send_request_with_retry_range: the match on request.send().await
ReceiveResponse ==
    /\ pc = "await"
    /\ inflight' = 0
    /\ \E r \in SendResults(inflight) :
         /\ result' = ResultOf(r)
         /\ consecFail' = IF r.kind \in {"timeout", "connect", "request"}
                          THEN consecFail + 1 ELSE 0
         /\ rangedFull' = (rangedFull \/ (r.ok /\ inflight > 0 /\ r.status = 200))
         /\ IF r.ok
            THEN IF AcceptedStatus(r.status)
                 THEN IF phase = "probe"
                      \* total_size read, response dropped;
                      \* download_with_resume starts
                      THEN /\ pc' = "send"
                           /\ phase' = "resume"
                           /\ downloaded' = already
                           /\ attempt' = 0
                           /\ reqAttempt' = 0
                           /\ UNCHANGED <<body, respStatus, delay>>
                      ELSE /\ pc' = "open"
                           /\ body' = r.body
                           /\ respStatus' = r.status
                           /\ UNCHANGED <<phase, downloaded, attempt,
                                          reqAttempt, delay>>
                 ELSE /\ pc' = "failed"
                      /\ UNCHANGED <<phase, downloaded, attempt, reqAttempt,
                                     delay, body, respStatus>>
            ELSE IF GivesUp(r, reqAttempt)
                 THEN /\ pc' = "failed"
                      /\ UNCHANGED <<phase, downloaded, attempt, reqAttempt,
                                     delay, body, respStatus>>
                 ELSE /\ pc' = "backoff"
                      /\ reqAttempt' = reqAttempt + 1
                      /\ delay' = RetryDelay(reqAttempt + 1)
                      /\ UNCHANGED <<phase, downloaded, attempt, body,
                                     respStatus>>
    /\ UNCHANGED <<urlOk, acceptRanges, tmp, dest, already, startTmp,
                   breaks, firstRange, streamDone>>
    /\ UNCHANGED dlRest

\* send_request_with_retry_range: the sleep before a retry is over
Backoff ==
    /\ pc = "backoff"
    /\ pc' = "send"
    /\ delay' = 0
    /\ UNCHANGED <<phase, urlOk, acceptRanges, tmp, dest, already, startTmp,
                   downloaded, attempt, reqAttempt, inflight, body,
                   respStatus, result, consecFail, breaks, firstRange,
                   rangedFull, streamDone>>
    /\ UNCHANGED dlRest

\* the file download_with_resume opens: append when downloaded > 0,
\* create (truncate) otherwise
OpenedFile(f, n) ==
    IF n > 0
    THEN FileOf(IF f.exists THEN f.data ELSE <<>>)
    ELSE FileOf(<<>>)

\* download_with_resume: open the temp file
OpenFile ==
    /\ pc = "open"
    /\ pc' = "stream"
    /\ tmp' = OpenedFile(tmp, downloaded)
    /\ result' = NoResult
    /\ UNCHANGED <<phase, urlOk, acceptRanges, dest, already, startTmp,
                   downloaded, attempt, reqAttempt, inflight, delay, body,
                   respStatus, consecFail, breaks, firstRange, rangedFull,
                   streamDone>>
    /\ UNCHANGED dlRest

\* a chunk written straight to the destination, without a temp file
WriteChunkToDest ==
    /\ pc = "stream"
    /\ \E k \in 1..Len(body) :
         /\ dest' = FileOf((IF dest.exists THEN dest.data ELSE <<>>) \o Prefix(body, k))
         /\ body' = Suffix(body, k)
         /\ downloaded' = downloaded + k
    /\ UNCHANGED <<pc, phase, urlOk, acceptRanges, tmp, already, startTmp,
                   attempt, reqAttempt, inflight, delay, respStatus, result,
                   consecFail, breaks, firstRange, rangedFull, streamDone>>
    /\ UNCHANGED dlRest

\* download_with_resume: one chunk of the body is written to the file
WriteChunk ==
    /\ pc = "stream"
    /\ \E k \in 1..Len(body) :
         /\ tmp' = FileOf(tmp.data \o Prefix(body, k))
         /\ body' = Suffix(body, k)
         /\ downloaded' = downloaded + k
    /\ UNCHANGED <<pc, phase, urlOk, acceptRanges, dest, already, startTmp,
                   attempt, reqAttempt, inflight, delay, respStatus, result,
                   consecFail, breaks, firstRange, rangedFull, streamDone>>
    /\ UNCHANGED dlRest

\* download_with_resume: the stream ends, the file is flushed
StreamEnd ==
    /\ pc = "stream"
    /\ body = <<>>
    /\ pc' = "rename"
    /\ streamDone' = TRUE
    /\ UNCHANGED <<phase, urlOk, acceptRanges, tmp, dest, already, startTmp,
                   downloaded, attempt, reqAttempt, inflight, delay, body,
                   respStatus, result, consecFail, breaks, firstRange,
                   rangedFull>>
    /\ UNCHANGED dlRest

\* a stream retry test that allows one retry more
StreamGivesUpLate(a) == a > MAX_RETRIES

\* the stream retry test of download_with_resume
StreamGivesUp(a) == a >= MAX_RETRIES

\* download_with_resume: the stream yields an error
StreamError ==
    /\ pc = "stream"
    /\ body' = <<>>
    /\ breaks' = breaks + 1
    /\ IF StreamGivesUp(attempt)
       THEN /\ pc' = "failed"
            /\ result' = [kind |-> "stream", status |-> 0]
            /\ UNCHANGED <<attempt, delay>>
       ELSE /\ pc' = "sbackoff"
            /\ attempt' = attempt + 1
            /\ delay' = RetryDelay(attempt + 1)
            /\ UNCHANGED result
    /\ UNCHANGED <<phase, urlOk, acceptRanges, tmp, dest, already, startTmp,
                   downloaded, reqAttempt, inflight, respStatus, consecFail,
                   firstRange, rangedFull, streamDone>>
    /\ UNCHANGED dlRest

\* download_with_resume: the sleep before continue 'retry is over
StreamBackoff ==
    /\ pc = "sbackoff"
    /\ pc' = "send"
    /\ delay' = 0
    /\ reqAttempt' = 0
    /\ UNCHANGED <<phase, urlOk, acceptRanges, tmp, dest, already, startTmp,
                   downloaded, attempt, inflight, body, respStatus, result,
                   consecFail, breaks, firstRange, rangedFull, streamDone>>
    /\ UNCHANGED dlRest

\* download_file: fs::rename(&temp_path, dest)
Rename ==
    /\ pc = "rename"
    /\ pc' = "done"
    /\ dest' = tmp
    /\ tmp' = NoFile
    /\ UNCHANGED <<phase, urlOk, acceptRanges, already, startTmp, downloaded,
                   attempt, reqAttempt, inflight, delay, body, respStatus,
                   result, consecFail, breaks, firstRange, rangedFull,
                   streamDone>>
    /\ UNCHANGED dlRest

\* a filesystem call of download_file or download_with_resume returns an
\* error, which `?` propagates
IoError ==
    /\ pc \in {"start", "open", "stream", "rename"}
    /\ pc' = "failed"
    /\ result' = [kind |-> "io", status |-> 0]
    /\ UNCHANGED <<phase, urlOk, acceptRanges, tmp, dest, already, startTmp,
                   downloaded, attempt, reqAttempt, inflight, delay, body,
                   respStatus, consecFail, breaks, firstRange, rangedFull,
                   streamDone>>
    /\ UNCHANGED dlRest

\* the process is killed (the signal tasks of main call process::exit)
Kill ==
    /\ Running
    /\ pc' = "killed"
    /\ UNCHANGED <<phase, urlOk, acceptRanges, tmp, dest, already, startTmp,
                   downloaded, attempt, reqAttempt, inflight, delay, body,
                   respStatus, result, consecFail, breaks, firstRange,
                   rangedFull, streamDone>>
    /\ UNCHANGED dlRest

InitDL ==
    /\ pc = "start"
    /\ phase = "probe"
    /\ urlOk \in BOOLEAN
    /\ acceptRanges \in BOOLEAN
    /\ tmp \in {NoFile} \cup {FileOf(Prefix(Resource, n)) : n \in 0..TotalSize}
    /\ dest \in {NoFile, FileOf(OldData)}
    /\ already = 0
    /\ startTmp = NoFile
    /\ downloaded = 0
    /\ attempt = 0
    /\ reqAttempt = 0
    /\ inflight = 0
    /\ delay = 0
    /\ body = <<>>
    /\ respStatus = 0
    /\ result = NoResult
    /\ consecFail = 0
    /\ breaks = 0
    /\ firstRange = -1
    /\ rangedFull = FALSE
    /\ streamDone = FALSE
    /\ ExIdle
    /\ OrIdle
    /\ EnvIdle
    /\ RnIdle
    /\ FnIdle

NextDL ==
    \/ DownloadFileStart
    \/ SendRequest
    \/ ReceiveResponse
    \/ Backoff
    \/ OpenFile
    \/ WriteChunk
    \/ StreamEnd
    \/ StreamError
    \/ StreamBackoff
    \/ Rename
    \/ IoError
    \/ Kill

SpecDL == InitDL /\ [][NextDL]_vars

TypeDL ==
    /\ pc \in {"start", "send", "await", "backoff", "open", "stream",
               "sbackoff", "rename", "done", "failed", "killed"}
    /\ reqAttempt \in 0..MAX_RETRIES
    /\ attempt \in 0..MAX_RETRIES

(***************************************************************************)
(* Provisioning of a toolchain folder: the presence check of a             *)
(* provisioner, download_and_extract, finalize_extraction and the          *)
(* provisioner's own steps after the extraction                            *)
(***************************************************************************)
\* the directory the Android provisioner looks for inside the NDK folder
NestedName == "android-ndk"

\* the files of a toolchain, relative to the toolchain folder
Content ==
    {Ent(<<"bin">>, TRUE), Ent(<<"bin", "gcc">>, FALSE),
     Ent(<<"toolchains">>, TRUE)}

\* the entries of the remote archive, in archive order
ArchiveEntries(l) ==
    IF l = "flat"
    THEN <<Ent(<<"bin">>, TRUE), Ent(<<"bin", "gcc">>, FALSE),
           Ent(<<"toolchains">>, TRUE)>>
    ELSE <<Ent(<<NestedName>>, TRUE), Ent(<<NestedName, "bin">>, TRUE),
           Ent(<<NestedName, "bin", "gcc">>, FALSE),
           Ent(<<NestedName, "toolchains">>, TRUE)>>
         \o (IF l = "nested" THEN <<Ent(<<"NOTICE">>, FALSE)>> ELSE <<>>)

\* a folder left in the cache directory by something else
StaleDir == DirOf({Ent(<<"old">>, FALSE)})

\* the presence check of the provisioner: ndk_dir.exists() for Android,
\* osxcross_dir.join("bin").exists() for Darwin, gcc_path.exists() for Linux
Present(c, dir) ==
    CASE c = "android" -> dir.exists
      [] c = "darwin" -> Ent(<<"bin">>, TRUE) \in dir.ents
      [] OTHER -> Ent(<<"bin", "gcc">>, FALSE) \in dir.ents

\* the compiler binary is in the toolchain folder
CompilerPresent(dir) == Ent(<<"bin", "gcc">>, FALSE) \in dir.ents

\* what the provisioner looks for before it fills in the CrossEnv:
\* find_prebuilt_bin_dir for Android (a bin directory), find_file_by_pattern
\* for Darwin (the clang binary), nothing for Linux
Resolved(c, dir) ==
    CASE c = "android" -> Ent(<<"bin">>, TRUE) \in dir.ents
      [] c = "darwin" -> CompilerPresent(dir)
      [] OTHER -> TRUE

\* the format of the archive: the NDK is a ZIP file, the others are tar.gz
\* files on a host that is not Windows
ArchiveFormat(c) == IF c = "android" THEN "zip" ELSE "tar.gz"

\* the main task is inside extract_zip_archive, which does not yield to the
\* runtime before it returns
Blocked == exPc = "dx_unpack" /\ ArchiveFormat(caller) = "zip"

\* the exit codes of the signal tasks: SIGINT and SIGTERM
Signals == {130, 143}

ExRunning == exPc \notin {"ready", "failed", "killed"}

\* setup: the presence check; download_and_extract starts if it fails
PresenceCheck ==
    /\ exPc = "check"
    /\ IF Present(caller, destDir)
       THEN /\ exPc' = "resolve"
            /\ skipped' = TRUE
       ELSE /\ exPc' = "dx_cleanup"
            /\ skipped' = FALSE
    /\ UNCHANGED <<caller, layout, destDir, tempDir, archive, nextEntry,
                   exErr, dest0, exRuns>>
    /\ UNCHANGED exSig
    /\ UNCHANGED exRest

\* download_and_extract: cleanup_and_create_dir(&temp_dir)
CleanupAndCreateDir ==
    /\ exPc = "dx_cleanup"
    /\ tempDir' = DirOf({})
    /\ exPc' = "dx_download"
    /\ UNCHANGED <<caller, layout, destDir, archive, nextEntry, exErr,
                   dest0, skipped, exRuns>>
    /\ UNCHANGED exSig
    /\ UNCHANGED exRest

\* download_and_extract_tar_gz / _zip: download_archive, which succeeds or
\* returns an error and leaves what it wrote
DownloadArchive ==
    /\ exPc = "dx_download"
    /\ \/ /\ archive' = "complete"
          /\ nextEntry' = 1
          /\ exPc' = "dx_unpack"
          /\ UNCHANGED exErr
       \/ /\ archive' \in {archive, "partial"}
          /\ exErr' = "download"
          /\ exPc' = "dx_errclean"
          /\ UNCHANGED nextEntry
    /\ fetched' = TRUE
    /\ UNCHANGED <<caller, layout, destDir, tempDir, dest0, skipped, exRuns>>
    /\ UNCHANGED <<sigPending, exExit, okBefore>>
    /\ UNCHANGED exRest

\* one entry of the archive is unpacked into the scratch directory
UnpackEntry ==
    /\ exPc = "dx_unpack"
    /\ nextEntry <= Len(ArchiveEntries(layout))
    /\ tempDir' = DirOf(tempDir.ents \cup {ArchiveEntries(layout)[nextEntry]})
    /\ nextEntry' = nextEntry + 1
    /\ UNCHANGED <<exPc, caller, layout, destDir, archive, exErr, dest0,
                   skipped, exRuns>>
    /\ UNCHANGED exSig
    /\ UNCHANGED exRest

\* decompression or the unpacking of an entry returns an error; the main
\* task yields at the next await, where a pending signal ends the process
UnpackError ==
    /\ exPc = "dx_unpack"
    /\ IF sigPending # 0
       THEN /\ exPc' = "killed"
            /\ exExit' = sigPending
            /\ UNCHANGED exErr
       ELSE /\ exErr' = "unpack"
            /\ exPc' = "dx_errclean"
            /\ UNCHANGED exExit
    /\ UNCHANGED <<caller, layout, destDir, tempDir, archive, nextEntry,
                   dest0, skipped, exRuns>>
    /\ UNCHANGED <<sigPending, fetched, okBefore>>
    /\ UNCHANGED exRest

\* all entries are unpacked; the archive file is removed, unless a signal
\* is pending: the main task yields in fs::remove_file and the signal task
\* ends the process
UnpackDone ==
    /\ exPc = "dx_unpack"
    /\ nextEntry > Len(ArchiveEntries(layout))
    /\ IF sigPending # 0
       THEN /\ exPc' = "killed"
            /\ exExit' = sigPending
            /\ UNCHANGED archive
       ELSE /\ archive' = "absent"
            /\ exPc' = "fin_remove"
            /\ UNCHANGED exExit
    /\ UNCHANGED <<caller, layout, destDir, tempDir, nextEntry, exErr, dest0,
                   skipped, exRuns>>
    /\ UNCHANGED <<sigPending, fetched, okBefore>>
    /\ UNCHANGED exRest

\* download_and_extract: result.is_err(): the scratch directory is removed
\* and the error returned
ErrorCleanup ==
    /\ exPc = "dx_errclean"
    /\ tempDir' = NoDir
    /\ exPc' = "failed"
    /\ UNCHANGED <<caller, layout, destDir, archive, nextEntry, exErr, dest0,
                   skipped, exRuns>>
    /\ UNCHANGED exSig
    /\ UNCHANGED exRest

\* finalize_extraction: a destination that exists is removed
FinalizeRemoveDest ==
    /\ exPc = "fin_remove"
    /\ destDir' = NoDir
    /\ exPc' = "fin_move"
    /\ UNCHANGED <<caller, layout, tempDir, archive, nextEntry, exErr, dest0,
                   skipped, exRuns>>
    /\ UNCHANGED exSig
    /\ UNCHANGED exRest

\* the scratch directory holds one top-level entry and it is a directory
SingleTopDir(es) ==
    /\ Cardinality(TopEntries(es)) = 1
    /\ \A e \in TopEntries(es) : e.d

\* a finalization that renames the scratch directory whatever it holds
FinalizedWhole(es) == es

\* the destination finalize_extraction produces from the scratch directory
Finalized(es) ==
    IF SingleTopDir(es)
    THEN Below(es, (CHOOSE e \in TopEntries(es) : TRUE).p[1])
    ELSE es

\* finalize_extraction: the entries are listed and the single top-level
\* directory, or else the scratch directory itself, is renamed
FinalizeMove ==
    /\ exPc = "fin_move"
    /\ destDir' = DirOf(Finalized(tempDir.ents))
    /\ IF SingleTopDir(tempDir.ents)
       THEN /\ tempDir' = DirOf({})
            /\ exPc' = "fin_rmtemp"
       ELSE /\ tempDir' = NoDir
            /\ exPc' = "dx_ok"
    /\ UNCHANGED <<caller, layout, archive, nextEntry, exErr, dest0, skipped,
                   exRuns>>
    /\ UNCHANGED exSig
    /\ UNCHANGED exRest

\* finalize_extraction: read_dir, file_type or rename returns an error,
\* which `?` propagates out of download_and_extract
FinalizeError ==
    /\ exPc = "fin_move"
    /\ exErr' = "finalize"
    /\ exPc' = "failed"
    /\ UNCHANGED <<caller, layout, destDir, tempDir, archive, nextEntry,
                   dest0, skipped, exRuns>>
    /\ UNCHANGED exSig
    /\ UNCHANGED exRest

\* finalize_extraction: the emptied scratch directory is removed
FinalizeRemoveTemp ==
    /\ exPc = "fin_rmtemp"
    /\ tempDir' = NoDir
    /\ exPc' = "dx_ok"
    /\ UNCHANGED <<caller, layout, destDir, archive, nextEntry, exErr, dest0,
                   skipped, exRuns>>
    /\ UNCHANGED exSig
    /\ UNCHANGED exRest

\* the children of the nested directory
NestedChildren(es) == {e.p[2] : e \in {x \in es : Len(x.p) = 2 /\ x.p[1] = NestedName}}

\* the folder after fs::rename(nested/c, ndk_dir/c)
MoveUp(es, c) ==
    {IF Len(e.p) > 1 /\ e.p[1] = NestedName /\ e.p[2] = c
     THEN Ent(Tail(e.p), e.d) ELSE e : e \in es}

\* setup after download_and_extract returned Ok: the Android provisioner
\* looks for the nested directory
AfterExtract ==
    /\ exPc = "dx_ok"
    /\ exPc' = IF caller = "android" /\ Ent(<<NestedName>>, TRUE) \in destDir.ents
               THEN "nested" ELSE "resolve"
    /\ UNCHANGED <<caller, layout, destDir, tempDir, archive, nextEntry,
                   exErr, dest0, skipped, exRuns>>
    /\ UNCHANGED exSig
    /\ UNCHANGED exRest

\* android setup: one entry of the nested directory is moved up
MoveNestedEntry ==
    /\ exPc = "nested"
    /\ \E c \in NestedChildren(destDir.ents) :
         destDir' = DirOf(MoveUp(destDir.ents, c))
    /\ UNCHANGED <<exPc, caller, layout, tempDir, archive, nextEntry, exErr,
                   dest0, skipped, exRuns>>
    /\ UNCHANGED exSig
    /\ UNCHANGED exRest

\* android setup: read_dir or rename returns an error
MoveNestedError ==
    /\ exPc = "nested"
    /\ exErr' = "nested"
    /\ exPc' = "failed"
    /\ UNCHANGED <<caller, layout, destDir, tempDir, archive, nextEntry,
                   dest0, skipped, exRuns>>
    /\ UNCHANGED exSig
    /\ UNCHANGED exRest

\* android setup: the emptied nested directory is removed
MoveNestedDone ==
    /\ exPc = "nested"
    /\ NestedChildren(destDir.ents) = {}
    /\ destDir' = DirOf(destDir.ents \ {Ent(<<NestedName>>, TRUE)})
    /\ exPc' = "resolve"
    /\ UNCHANGED <<caller, layout, tempDir, archive, nextEntry, exErr, dest0,
                   skipped, exRuns>>
    /\ UNCHANGED exSig
    /\ UNCHANGED exRest

\* setup: the provisioner locates the compiler and fills in the CrossEnv, or
\* returns CompilerNotFound
ResolveCompiler ==
    /\ exPc = "resolve"
    /\ IF Resolved(caller, destDir)
       THEN /\ exPc' = "ready"
            /\ UNCHANGED exErr
       ELSE /\ exPc' = "failed"
            /\ exErr' = "resolution"
    /\ UNCHANGED <<caller, layout, destDir, tempDir, archive, nextEntry,
                   dest0, skipped, exRuns>>
    /\ UNCHANGED exSig
    /\ UNCHANGED exRest

\* SIGINT or SIGTERM is delivered: the signal task of main calls
\* process::exit when the runtime polls it, which the current_thread runtime
\* does only when the main task yields
ExKill ==
    /\ ExRunning
    /\ sigPending = 0
    /\ \E sig \in Signals :
         /\ sigPending' = sig
         /\ IF Blocked
            THEN UNCHANGED <<exPc, exExit>>
            ELSE /\ exPc' = "killed"
                 /\ exExit' = sig
    /\ UNCHANGED <<caller, layout, destDir, tempDir, archive, nextEntry,
                   exErr, dest0, skipped, exRuns>>
    /\ UNCHANGED <<fetched, okBefore>>
    /\ UNCHANGED exRest

\* the tool is invoked again for the same target on the same cache
ExNextRun ==
    /\ ~ExRunning
    /\ exRuns < MaxRuns
    /\ exRuns' = exRuns + 1
    /\ exPc' = "check"
    /\ nextEntry' = 0
    /\ exErr' = "none"
    /\ dest0' = destDir
    /\ skipped' = FALSE
    /\ sigPending' = 0
    /\ exExit' = -1
    /\ fetched' = FALSE
    /\ okBefore' = (okBefore \/ exPc = "ready")
    /\ UNCHANGED <<caller, layout, destDir, tempDir, archive>>
    /\ UNCHANGED exRest

InitEx ==
    /\ exPc = "check"
    /\ caller \in {"android", "linux", "darwin"}
    /\ layout \in {"flat", "wrapped", "nested"}
    /\ destDir \in (IF caller = "android" THEN {NoDir} ELSE {NoDir, StaleDir})
    /\ tempDir = NoDir
    /\ archive = "absent"
    /\ nextEntry = 0
    /\ exErr = "none"
    /\ dest0 = destDir
    /\ skipped = FALSE
    /\ exRuns = 1
    /\ sigPending = 0
    /\ exExit = -1
    /\ fetched = FALSE
    /\ okBefore = FALSE
    /\ DlIdle
    /\ OrIdle
    /\ EnvIdle
    /\ RnIdle
    /\ FnIdle

NextEx ==
    \/ PresenceCheck
    \/ CleanupAndCreateDir
    \/ DownloadArchive
    \/ UnpackEntry
    \/ UnpackError
    \/ UnpackDone
    \/ ErrorCleanup
    \/ FinalizeRemoveDest
    \/ FinalizeMove
    \/ FinalizeError
    \/ FinalizeRemoveTemp
    \/ AfterExtract
    \/ MoveNestedEntry
    \/ MoveNestedError
    \/ MoveNestedDone
    \/ ResolveCompiler
    \/ ExKill
    \/ ExNextRun

SpecEx == InitEx /\ [][NextEx]_vars

\* the toolchain folder an undisturbed provisioning produces
ExpectedTree(c, l) ==
    IF l = "nested"
    THEN IF c = "android"
         THEN Content \cup {Ent(<<"NOTICE">>, FALSE)}
         ELSE {ArchiveEntries(l)[i] : i \in 1..Len(ArchiveEntries(l))}
    ELSE Content

\* the entries an archive of layout l puts into the scratch directory
Extracted(l) == {ArchiveEntries(l)[i] : i \in 1..Len(ArchiveEntries(l))}

C3_ExtractionAllOrNothing ==
    (exPc = "failed" /\ exErr \in {"download", "unpack", "finalize"})
        => (tempDir = NoDir /\ destDir = dest0)

\* the same for the errors of the download and of the unpacking
L3_DownloadOrUnpackError ==
    (exPc = "failed" /\ exErr \in {"download", "unpack"})
        => (tempDir = NoDir /\ destDir = dest0)

\* C4: a folder the presence check accepts holds the complete toolchain
C4_AcceptedFolderIsComplete ==
    skipped => destDir = DirOf(ExpectedTree(caller, layout))

\* the same for the Linux provisioner, whose folder appears by one rename
L4_LinuxAcceptedFolderIsComplete ==
    (skipped /\ caller = "linux") => destDir = DirOf(ExpectedTree(caller, layout))

\* C13: a download is started only when the toolchain binary is absent from
\* the cache directory, and once a provisioning of this toolchain returned
\* Ok, no later provisioning on the same cache directory starts a download.
C13_NoDownloadAfterSuccess ==
    /\ fetched => ~CompilerPresent(dest0)
    /\ okBefore => ~fetched

\* the same for the provisioners that look for the compiler before they
\* return Ok
L13_NoDownloadAfterResolvedSuccess ==
    caller \in {"android", "darwin"} =>
        /\ fetched => ~CompilerPresent(dest0)
        /\ okBefore => ~fetched

\* C14: a signal delivered in any state of a run, archive extraction
\* included, ends the process with code 130 or 143 before the operation in
\* flight goes on, and the exit leaves the partial files where they are.
C14_SignalForceExits ==
    [][/\ sigPending' # 0 => (exPc' = "killed" /\ exExit' = sigPending')
       /\ (exPc # "killed" /\ exPc' = "killed")
              => (archive' = archive /\ tempDir' = tempDir /\ destDir' = destDir)
      ]_vars

\* the same for a signal delivered while the main task is not inside
\* extract_zip_archive
L14_SignalForceExitsAtAwait ==
    [][/\ (~Blocked /\ sigPending = 0 /\ sigPending' # 0)
              => (exPc' = "killed" /\ exExit' = sigPending')
       /\ (exPc # "killed" /\ exPc' = "killed")
              => (archive' = archive /\ tempDir' = tempDir /\ destDir' = destDir)
      ]_vars

\* C16: when the compiler binary is absent from the toolchain folder after
\* a download and extraction that reported success, the provisioner returns
\* a resolution error instead of Ok, whatever the provisioner.
C16_MissingCompilerIsResolutionError ==
    (exPc = "ready" /\ fetched) => CompilerPresent(destDir)

\* the same for the Darwin and Android provisioners
L16_DarwinAndroidResolutionError ==
    (exPc = "ready" /\ fetched /\ caller \in {"android", "darwin"})
        => CompilerPresent(destDir)

(***************************************************************************)
(* Orchestrator: run and execute_target                                    *)
(***************************************************************************)
\* exit codes of the downstream build command
CargoCodes == {0, 1, 101}

\* a run that logs the error of a target and goes on with the next one
FailTargetContinue ==
    /\ stage' = [stage EXCEPT ![cur] = "Failed"]
    /\ exitCode' = exitCode
    /\ orPc' = "loop"

\* run: execute_target returned an error: the error is logged and run
\* returns ExitCode::FAILURE
FailTarget ==
    /\ stage' = [stage EXCEPT ![cur] = "Failed"]
    /\ exitCode' = 1
    /\ orPc' = "exit"

\* run: the loop takes the next target; execute_target starts, cleans the
\* build directory if asked to and goes on to ensure_target_installed
StartTarget ==
    /\ orPc = "loop"
    /\ cur < NumTargets
    /\ cur' = cur + 1
    /\ orPc' = "target"
    /\ stage' = [stage EXCEPT ![cur + 1] = "PrereqCheck"]
    /\ built' = IF cleanCache THEN [t \in Targets |-> FALSE] ELSE built
    /\ needsBuildStd' = FALSE
    /\ UNCHANGED <<cached, cleanCache, userBuildStd, cargoCode, exitCode>>
    /\ UNCHANGED orRest

\* execute_target: ensure_target_installed
PrereqCheck ==
    /\ orPc = "target"
    /\ stage[cur] = "PrereqCheck"
    /\ \/ \E auto \in BOOLEAN :
            /\ stage' = [stage EXCEPT ![cur] = "Provision"]
            /\ needsBuildStd' = auto
            /\ UNCHANGED <<orPc, exitCode>>
       \/ /\ FailTarget
          /\ UNCHANGED needsBuildStd
    /\ UNCHANGED <<cur, built, cached, cleanCache, userBuildStd, cargoCode>>
    /\ UNCHANGED orRest

\* execute_target: check_preconfigured_env, setup_cross_env or the default
\* environment; then needs_build_std is computed
Provision ==
    /\ orPc = "target"
    /\ stage[cur] = "Provision"
    /\ \/ \E provisioned \in BOOLEAN, envBuildStd \in BOOLEAN :
            /\ cached' = [cached EXCEPT ![cur] = cached[cur] \/ provisioned]
            /\ needsBuildStd' = (userBuildStd \/ needsBuildStd \/ envBuildStd)
            /\ stage' = [stage EXCEPT ![cur] =
                            IF userBuildStd \/ needsBuildStd \/ envBuildStd
                            THEN "RustSrc" ELSE "Compose"]
            /\ UNCHANGED <<orPc, exitCode>>
       \/ /\ FailTarget
          /\ UNCHANGED <<cached, needsBuildStd>>
    /\ UNCHANGED <<cur, built, cleanCache, userBuildStd, cargoCode>>
    /\ UNCHANGED orRest

\* execute_target: ensure_rust_src
RustSrc ==
    /\ orPc = "target"
    /\ stage[cur] = "RustSrc"
    /\ \/ /\ stage' = [stage EXCEPT ![cur] = "Compose"]
          /\ UNCHANGED <<orPc, exitCode>>
       \/ FailTarget
    /\ UNCHANGED <<cur, built, cached, cleanCache, userBuildStd,
                   needsBuildStd, cargoCode>>
    /\ UNCHANGED orRest

\* a composition that sends the target back to its provisioning
ComposeThenProvision ==
    /\ orPc = "target"
    /\ stage[cur] = "Compose"
    /\ stage' = [stage EXCEPT ![cur] = "Provision"]
    /\ UNCHANGED <<orPc, cur, built, cached, cleanCache, userBuildStd,
                   needsBuildStd, cargoCode, exitCode>>
    /\ UNCHANGED orRest

\* execute_cargo: build_cargo_env and build_cargo_command
Compose ==
    /\ orPc = "target"
    /\ stage[cur] = "Compose"
    /\ stage' = [stage EXCEPT ![cur] = "Invoke"]
    /\ UNCHANGED <<orPc, cur, built, cached, cleanCache, userBuildStd,
                   needsBuildStd, cargoCode, exitCode>>
    /\ UNCHANGED orRest

\* execute_cargo: run_command, and the status test of execute_target
Invoke ==
    /\ orPc = "target"
    /\ stage[cur] = "Invoke"
    /\ \/ \E c \in CargoCodes :
            /\ cargoCode' = c
            /\ IF c = 0
               THEN /\ stage' = [stage EXCEPT ![cur] = "Done"]
                    /\ built' = [built EXCEPT ![cur] = TRUE]
                    /\ orPc' = "loop"
                    /\ UNCHANGED exitCode
               ELSE /\ FailTarget
                    /\ UNCHANGED built
       \/ /\ FailTarget
          /\ UNCHANGED <<built, cargoCode>>
    /\ UNCHANGED <<cur, cached, cleanCache, userBuildStd, needsBuildStd>>
    /\ UNCHANGED orRest

\* run: all targets are processed
Finish ==
    /\ orPc = "loop"
    /\ cur = NumTargets
    /\ exitCode' = 0
    /\ orPc' = "exit"
    /\ UNCHANGED <<cur, stage, built, cached, cleanCache, userBuildStd,
                   needsBuildStd, cargoCode>>
    /\ UNCHANGED orRest

\* main: a signal task calls process::exit(130) or process::exit(143)
Signal ==
    /\ orPc # "exit"
    /\ \E code \in {130, 143} : exitCode' = code
    /\ orPc' = "exit"
    /\ UNCHANGED <<cur, stage, built, cached, cleanCache, userBuildStd,
                   needsBuildStd, cargoCode>>
    /\ UNCHANGED orRest

InitOrch ==
    /\ orPc = "loop"
    /\ cur = 0
    /\ stage = [t \in Targets |-> "Idle"]
    /\ built = [t \in Targets |-> FALSE]
    /\ cached = [t \in Targets |-> FALSE]
    /\ cleanCache \in BOOLEAN
    /\ userBuildStd \in BOOLEAN
    /\ needsBuildStd = FALSE
    /\ cargoCode = 0
    /\ exitCode = -1
    /\ DlIdle
    /\ ExIdle
    /\ EnvIdle
    /\ RnIdle
    /\ FnIdle

NextOrch ==
    \/ StartTarget
    \/ PrereqCheck
    \/ Provision
    \/ RustSrc
    \/ Compose
    \/ Invoke
    \/ Finish
    \/ Signal

SpecOrch == InitOrch /\ [][NextOrch]_vars

\* some target has failed
SomeFailed == \E i \in Targets : stage[i] = "Failed"

StageRank(s) ==
    CASE s = "Idle" -> 0
      [] s = "PrereqCheck" -> 1
      [] s = "Provision" -> 2
      [] s = "RustSrc" -> 3
      [] s = "Compose" -> 4
      [] s = "Invoke" -> 5
      [] s = "Done" -> 6
      [] s = "Failed" -> 6

\* C27: a target only ever moves forward in the order prerequisite check,
\* provisioning, composition, invocation, Done or Failed, so that no step is
\* repeated and nothing follows Done or Failed; prerequisite check comes
\* right after Idle and Done only after the invocation; a target has left
\* Idle only if all targets before it are Done; and when run returns, every
\* target that was started is Done or Failed.
C27_StepsInOrder ==
    /\ [][\A i \in Targets :
            stage'[i] # stage[i] =>
                /\ StageRank(stage'[i]) > StageRank(stage[i])
                /\ stage[i] = "Idle" => stage'[i] = "PrereqCheck"
                /\ stage'[i] = "Compose" =>
                       stage[i] \in {"Provision", "RustSrc"}
                /\ stage'[i] = "Invoke" => stage[i] = "Compose"
                /\ stage'[i] = "Provision" => stage[i] = "PrereqCheck"
                /\ stage'[i] = "Done" => stage[i] = "Invoke"]_vars
    /\ [](\A i, j \in Targets :
            (j < i /\ stage[i] # "Idle") => stage[j] = "Done")
    /\ []((orPc = "exit" /\ exitCode \in {0, 1}) =>
            \A i \in Targets : stage[i] \in {"Idle", "Done", "Failed"})

\* the second target is being built after the first one is Done, and the
\* third one has not been started
W27_SecondAfterFirstDone ==
    /\ NumTargets >= 3
    /\ stage[1] = "Done"
    /\ stage[2] = "Invoke"
    /\ stage[3] = "Idle"
    /\ needsBuildStd

\* C11: when the downstream build command of a target ended with a non-zero
\* code c, the target is Failed and the process exits with code c
C11_ExitCodePropagated ==
    (orPc = "exit" /\ cargoCode # 0)
        => (stage[cur] = "Failed" /\ exitCode = cargoCode)

\* the same, for the exit code being some non-zero code
L11_FailureExitsNonZero ==
    (orPc = "exit" /\ cargoCode # 0)
        => (stage[cur] = "Failed" /\ exitCode # 0)

(***************************************************************************)
(* The environment of the build command: check_preconfigured_env,          *)
(* setup_cross_env, CrossEnv::build_env and build_cargo_env.               *)
(* A string is the sequence of its words; a target triple is the sequence  *)
(* of its parts, "-" being a part; a map is a set of <<key, value>> pairs. *)
(***************************************************************************)
LinuxTarget == <<"aarch64", "-", "unknown", "-", "linux", "-", "gnu">>

DarwinTarget == <<"x86_64", "-", "apple", "-", "darwin">>

\* a triple the target registry does not know
CustomTarget == <<"my", "-", "board">>

EnvTargets == {LinuxTarget, DarwinTarget, CustomTarget}

\* get_target_config(target), reduced to the os of the configuration
GetTargetConfig(t) ==
    IF t = LinuxTarget THEN Some("linux")
    ELSE IF t = DarwinTarget THEN Some("darwin")
    ELSE None

\* str::replace('-', "_")
ReplaceDash(t) == [i \in 1..Len(t) |-> IF t[i] = "-" THEN "_" ELSE t[i]]

UpperWord(w) ==
    CASE w = "aarch64" -> "AARCH64"
      [] w = "unknown" -> "UNKNOWN"
      [] w = "linux" -> "LINUX"
      [] w = "gnu" -> "GNU"
      [] w = "x86_64" -> "X86_64"
      [] w = "apple" -> "APPLE"
      [] w = "darwin" -> "DARWIN"
      [] w = "my" -> "MY"
      [] w = "board" -> "BOARD"
      [] OTHER -> w

\* str::to_uppercase
ToUppercase(t) == [i \in 1..Len(t) |-> UpperWord(t[i])]

\* format!("{name}{target_lower}"), name ending in '_'
TargetKey(name, t) == <<name, "_">> \o ReplaceDash(t)

\* format!("CARGO_TARGET_{target_upper}_{what}")
CargoKey(t, what) ==
    <<"CARGO_TARGET_">> \o ReplaceDash(ToUppercase(t)) \o <<"_", what>>

Keys(m) == {p[1] : p \in m}

\* HashMap::get
Get(m, k) ==
    IF k \in Keys(m) THEN Some((CHOOSE p \in m : p[1] = k)[2]) ELSE None

\* HashMap::insert
Insert(m, k, v) == {p \in m : p[1] # k} \cup {<<k, v>>}

\* Option::unwrap_or_default for strings
UnwrapOrDefault(o) == IF IsSome(o) THEN Unwrap(o) ELSE <<>>

\* check_preconfigured_env: get_env, the value of a variable that is set
\* and not empty
GetEnv(e, k) == IF UnwrapOrDefault(Get(e, k)) # <<>> THEN Get(e, k) ELSE None

\* cc.ends_with("-gcc")
EndsWithGcc(s) == s # <<>> /\ s[Len(s)] = "my-gcc"

\* format!("{}-ar", cc.trim_end_matches("-gcc"))
GccToAr(s) == [s EXCEPT ![Len(s)] = "my-ar"]

\* check_preconfigured_env without the target-specific variables
CheckPreconfiguredEnvGenericOnly(t, a, e) ==
    IF a.use_default_linker
    THEN None
    ELSE IF IsSome(GetEnv(e, <<"CC">>)) /\ IsSome(GetEnv(e, <<"CXX">>))
         THEN Some([CrossEnvNew EXCEPT
                 !.cc = GetEnv(e, <<"CC">>),
                 !.cxx = GetEnv(e, <<"CXX">>),
                 !.linker = GetEnv(e, <<"CC">>)])
         ELSE None

\* check_preconfigured_env
CheckPreconfiguredEnv(t, a, e) ==
    IF a.use_default_linker
    THEN None
    ELSE IF IsSome(GetEnv(e, TargetKey("CC", t)))
         THEN Some([CrossEnvNew EXCEPT
                 !.cc = GetEnv(e, TargetKey("CC", t)),
                 !.cxx = GetEnv(e, TargetKey("CXX", t)),
                 !.ar = GetEnv(e, TargetKey("AR", t)),
                 !.linker = GetEnv(e, CargoKey(t, "LINKER")),
                 !.runner = GetEnv(e, CargoKey(t, "RUNNER"))])
         ELSE IF IsSome(GetEnv(e, <<"CC">>)) /\ IsSome(GetEnv(e, <<"CXX">>))
              THEN Some([CrossEnvNew EXCEPT
                      !.cc = GetEnv(e, <<"CC">>),
                      !.cxx = GetEnv(e, <<"CXX">>),
                      !.ar = IF IsSome(GetEnv(e, <<"AR">>))
                             THEN GetEnv(e, <<"AR">>)
                             ELSE IF EndsWithGcc(Unwrap(GetEnv(e, <<"CC">>)))
                                  THEN Some(GccToAr(Unwrap(GetEnv(e, <<"CC">>))))
                                  ELSE None,
                      !.linker = IF IsSome(GetEnv(e, <<"LINKER">>))
                                 THEN GetEnv(e, <<"LINKER">>)
                                 ELSE GetEnv(e, <<"CC">>),
                      !.runner = GetEnv(e, <<"RUNNER">>)])
              ELSE None

(***************************************************************************)
(* The runner a provisioner configures (runner.rs and platform/*.rs)       *)
(***************************************************************************)
\* Arch::qemu_binary_name
QemuBinaryName(arch) ==
    CASE arch = "aarch64" -> Some("qemu-aarch64")
      [] arch = "i686" -> Some("qemu-i386")
      [] arch = "x86_64" -> Some("qemu-x86_64")
      [] arch = "riscv64" -> Some("qemu-riscv64")
      [] OTHER -> None

\* HostPlatform::can_run_natively
CanRunNatively(host, arch) ==
    CASE host.arch = "x86_64" -> arch \in {"x86_64", "i686", "i586"}
      [] host.arch = "aarch64" -> arch \in {"aarch64", "armv5", "armv6", "armv7"}
      [] host.arch \in {"i686", "i586"} -> arch \in {"i686", "i586"}
      [] OTHER -> host.arch = arch

\* the outcome of a runner setup: the set_runner calls made, whether an
\* error is returned, and whether a download was started
RunnerOutcome(calls, err, http) == [calls |-> calls, err |-> err, http |-> http]

\* the QEMU binary is in the cache after the download step
QemuAvailable(tools) == tools.qemu \in {"present", "fetched"}

\* setup_qemu_runner
SetupQemuRunner(arch, tools) ==
    IF QemuBinaryName(arch) = None
    THEN RunnerOutcome(<<>>, FALSE, FALSE)
    ELSE IF tools.qemu = "error"
         THEN RunnerOutcome(<<>>, TRUE, TRUE)
         ELSE RunnerOutcome(IF QemuAvailable(tools) THEN <<"qemu">> ELSE <<>>,
                            FALSE, tools.qemu # "present")

\* setup_docker_qemu_runner
SetupDockerQemuRunner(arch, tools) ==
    IF ~tools.docker
    THEN RunnerOutcome(<<>>, FALSE, FALSE)
    ELSE IF QemuBinaryName(arch) = None
         THEN RunnerOutcome(<<>>, FALSE, FALSE)
         ELSE IF tools.qemu = "error"
              THEN RunnerOutcome(<<>>, TRUE, TRUE)
              ELSE RunnerOutcome(IF QemuAvailable(tools)
                                 THEN <<"docker-qemu">> ELSE <<>>,
                                 FALSE, tools.qemu # "present")

\* setup_wine_runner
SetupWineRunner(tools) ==
    RunnerOutcome(IF tools.wine THEN <<"wine">> ELSE <<>>, FALSE, FALSE)

\* setup_rosetta_runner
SetupRosettaRunner(cfg, host) ==
    RunnerOutcome(IF host.os = "darwin" /\ cfg.arch = "x86_64"
                     /\ cfg.os = "darwin" /\ host.arch = "aarch64"
                  THEN <<"rosetta">> ELSE <<>>, FALSE, FALSE)

NoRunner == RunnerOutcome(<<>>, FALSE, FALSE)

Unsupported == RunnerOutcome(<<>>, TRUE, FALSE)

\* a Linux provisioner that configures both QEMU runners on a Darwin host
LinuxRunnerBoth(cfg, host, needs, tools) ==
    IF ~needs
    THEN NoRunner
    ELSE IF host.os = "darwin"
         THEN RunnerOutcome(SetupDockerQemuRunner(cfg.arch, tools).calls
                              \o SetupQemuRunner(cfg.arch, tools).calls,
                            SetupDockerQemuRunner(cfg.arch, tools).err,
                            SetupDockerQemuRunner(cfg.arch, tools).http)
         ELSE IF host.os = "linux"
              THEN SetupQemuRunner(cfg.arch, tools)
              ELSE NoRunner

\* linux::setup, the runner part
LinuxRunner(cfg, host, needs, tools) ==
    IF ~needs
    THEN NoRunner
    ELSE IF host.os = "darwin"
         THEN SetupDockerQemuRunner(cfg.arch, tools)
         ELSE IF host.os = "linux"
              THEN SetupQemuRunner(cfg.arch, tools)
              ELSE NoRunner

\* windows::setup and setup_mingw, the runner part
WindowsRunner(cfg, host, needs, tools) ==
    IF cfg.libc = "msvc"
    THEN IF host.os = "windows" THEN NoRunner ELSE Unsupported
    ELSE IF cfg.arch \notin {"i686", "x86_64"}
         THEN Unsupported
         ELSE IF host.os # "windows" /\ needs
              THEN SetupWineRunner(tools)
              ELSE NoRunner

\* freebsd::setup, the runner part
FreeBsdRunner(cfg, host, needs, tools) ==
    IF cfg.arch \notin {"x86_64", "aarch64", "powerpc64", "powerpc64le", "riscv64"}
    THEN Unsupported
    ELSE NoRunner

\* darwin::setup, the runner part
DarwinRunner(cfg, host, needs, tools) ==
    IF host.os = "darwin"
    THEN IF needs THEN SetupRosettaRunner(cfg, host) ELSE NoRunner
    ELSE IF host.os = "linux"
         THEN IF host.arch \in {"x86_64", "amd64", "aarch64", "arm64"}
              THEN NoRunner ELSE Unsupported
         ELSE Unsupported

\* ios::setup, the runner part
IosRunner(cfg, host, needs, tools) ==
    IF host.os = "darwin"
    THEN NoRunner
    ELSE IF host.os = "linux"
         THEN IF cfg.arch \in {"aarch64", "x86_64"}
              THEN NoRunner ELSE Unsupported
         ELSE Unsupported

\* android::setup, the runner part
AndroidRunner(cfg, host, needs, tools) ==
    IF cfg.arch \notin {"armv7", "aarch64", "i686", "x86_64", "riscv64"}
    THEN Unsupported
    ELSE NoRunner

\* setup_cross_env: the provisioner of the target's os
ProvisionRunner(cfg, host, needs, tools) ==
    CASE cfg.os = "linux" -> LinuxRunner(cfg, host, needs, tools)
      [] cfg.os = "windows" -> WindowsRunner(cfg, host, needs, tools)
      [] cfg.os = "freebsd" -> FreeBsdRunner(cfg, host, needs, tools)
      [] cfg.os = "darwin" -> DarwinRunner(cfg, host, needs, tools)
      [] cfg.os = "ios" -> IosRunner(cfg, host, needs, tools)
      [] cfg.os = "android" -> AndroidRunner(cfg, host, needs, tools)

RunnerArchs == {"x86_64", "aarch64", "i686", "m68k"}

RunnerConfigs ==
    [os : {"linux"}, arch : RunnerArchs, libc : {"gnu", "musl"}]
        \cup [os : {"windows"}, arch : RunnerArchs, libc : {"gnu", "msvc"}]
        \cup [os : {"freebsd", "darwin", "ios", "android"},
              arch : RunnerArchs, libc : {"none"}]

RunnerHosts == [os : {"linux", "darwin", "windows"}, arch : {"x86_64", "aarch64"}]

RunnerTools ==
    [docker : BOOLEAN, wine : BOOLEAN,
     qemu : {"present", "fetched", "missing", "error"}]

\* setup of the provisioner, as far as the runner goes
SetupRunner ==
    /\ rnPc = "setup"
    /\ rnCalls' = ProvisionRunner(rnConfig, rnHost, rnNeeds, rnTools).calls
    /\ rnHttp' = ProvisionRunner(rnConfig, rnHost, rnNeeds, rnTools).http
    /\ rnPc' = IF ProvisionRunner(rnConfig, rnHost, rnNeeds, rnTools).err
               THEN "failed" ELSE "done"
    /\ UNCHANGED <<rnConfig, rnHost, rnNeeds, rnTools>>
    /\ UNCHANGED rnRest

InitRun ==
    /\ rnPc = "setup"
    /\ rnConfig \in RunnerConfigs
    /\ rnHost \in RunnerHosts
    /\ rnNeeds \in BOOLEAN
    /\ rnTools \in RunnerTools
    /\ rnCalls = <<>>
    /\ rnHttp = FALSE
    /\ DlIdle
    /\ ExIdle
    /\ OrIdle
    /\ EnvIdle
    /\ FnIdle

NextRun == SetupRunner

SpecRun == InitRun /\ [][NextRun]_vars

\* the command executes the produced binary and the host cannot run the
\* target architecture natively
RunnerNeeded == rnNeeds /\ ~CanRunNatively(rnHost, rnConfig.arch)

\* C15 as stated: whenever a runner is needed, provisioning configures
\* exactly one runner strategy
C15_ExactlyOneRunner ==
    (rnPc = "done" /\ RunnerNeeded) => Len(rnCalls) = 1

\* the runner strategy the target and the host call for, if the tool it
\* needs is there
StrategyFor(cfg, host, tools) ==
    IF cfg.os = "linux" /\ host.os = "linux"
       /\ IsSome(QemuBinaryName(cfg.arch)) /\ QemuAvailable(tools)
    THEN <<"qemu">>
    ELSE IF cfg.os = "linux" /\ host.os = "darwin" /\ tools.docker
            /\ IsSome(QemuBinaryName(cfg.arch)) /\ QemuAvailable(tools)
         THEN <<"docker-qemu">>
         ELSE IF cfg.os = "windows" /\ cfg.libc = "gnu"
                 /\ host.os # "windows" /\ tools.wine
              THEN <<"wine">>
              ELSE IF cfg.os = "darwin" /\ cfg.arch = "x86_64"
                      /\ host.os = "darwin" /\ host.arch = "aarch64"
                   THEN <<"rosetta">>
                   ELSE <<>>

\* C15 amended: a provisioner that returns a CrossEnv for a command that
\* executes the binary has configured at most one runner strategy: the one
\* of the four the target and host call for when its tool is there, and
\* none otherwise
C15_AtMostOneRunner ==
    (rnPc = "done" /\ rnNeeds)
        => (Len(rnCalls) <= 1 /\ rnCalls = StrategyFor(rnConfig, rnHost, rnTools))

\* a command that executes the binary of a foreign architecture, for which
\* the provisioner returned a CrossEnv with no runner
W15_NeededButNone ==
    /\ rnPc = "done"
    /\ RunnerNeeded
    /\ rnCalls = <<>>

\* the same with one runner configured
W15_NeededAndOne ==
    /\ rnPc = "done"
    /\ RunnerNeeded
    /\ Len(rnCalls) = 1

\* C30: when the command does not execute the binary, or the host can run
\* the architecture of the target natively, the provisioner sets no runner
\* and starts no download of QEMU
C30_RunnerOnlyWhenNeeded ==
    (rnPc \in {"done", "failed"} /\ ~RunnerNeeded)
        => (rnCalls = <<>> /\ ~rnHttp)

\* the same for the commands that do not execute the binary
L30_NoRunnerForBuildAndCheck ==
    (rnPc \in {"done", "failed"} /\ ~rnNeeds)
        => (rnCalls = <<>> /\ ~rnHttp)

(***************************************************************************)
(* setup_cross_env and the composition of the environment                  *)
(***************************************************************************)
\* the host the environment is composed on
EnvHost == [os |-> "linux", arch |-> "x86_64"]

\* the configuration of a registered target
EnvConfig(t) ==
    [os |-> Unwrap(GetTargetConfig(t)), arch |-> t[1],
     libc |-> IF Unwrap(GetTargetConfig(t)) = "linux" THEN "gnu" ELSE "none"]

\* the CrossEnv a provisioner fills in: linux::setup and setup_osxcross;
\* libs: the library directories the provisioner looks for exist
ToolchainEnv(os, libs) ==
    IF os = "linux"
    THEN [CrossEnvNew EXCEPT
            !.cc = Some(<<"aarch64-linux-gnu-gcc">>),
            !.cxx = Some(<<"aarch64-linux-gnu-g++">>),
            !.ar = Some(<<"aarch64-linux-gnu-ar">>),
            !.linker = Some(<<"aarch64-linux-gnu-gcc">>),
            !.rustflags = IF libs THEN <<"-L", "tc/lib">> ELSE <<>>]
    ELSE [CrossEnvNew EXCEPT
            !.cc = Some(<<"x86_64-apple-darwin-clang">>),
            !.cxx = Some(<<"x86_64-apple-darwin-clang++">>),
            !.ar = Some(<<"x86_64-apple-darwin-ar">>),
            !.linker = Some(<<"x86_64-apple-darwin-clang">>),
            !.extra_env = {<<<<"OSXCROSS_MP_INC">>, <<"1">>>>,
                           <<<<"MACOSX_DEPLOYMENT_TARGET">>, <<"10.12">>>>,
                           <<<<"COMPILER_PATH">>, <<"tc/bin">>>>},
            !.ldflags = <<"-fuse-ld=tc/ld">>,
            !.rustflags = <<"-C", "link-arg=-fuse-ld=tc/ld">>
                \o (IF libs THEN <<"-C", "link-arg=--sysroot=tc/SDK">> ELSE <<>>)]

\* what the host of the composition offers to a runner setup
EnvTools ==
    [docker : {FALSE}, wine : {FALSE},
     qemu : {"present", "fetched", "missing", "error"}]

\* an insertion under the generic key only
InsertBothGenericOnly(m, name, t, v) == Insert(m, <<name>>, v)

\* env.insert(format!("{name}_{target_lower}"), v); env.insert(name, v)
InsertBoth(m, name, t, v) ==
    Insert(Insert(m, TargetKey(name, t), v), <<name>>, v)

\* CrossEnv::build_env: a compiler field that is set
InsertCompiler(m, name, t, o) ==
    IF IsSome(o) THEN InsertBoth(m, name, t, Unwrap(o)) ELSE m

\* CrossEnv::build_env: a flag list that is not empty, joined by " "
InsertFlags(m, name, t, fl) ==
    IF fl # <<>> THEN InsertBoth(m, name, t, fl) ELSE m

\* CrossEnv::build_env: a Cargo key of the target
InsertCargo(m, t, what, o) ==
    IF IsSome(o) THEN Insert(m, CargoKey(t, what), Unwrap(o)) ELSE m

\* CrossEnv::build_env: the extra variables, inserted last
InsertAll(m, extra) == {p \in m : p[1] \notin Keys(extra)} \cup extra

\* CrossEnv::build_env, for the compiler, linker, runner and flag fields and
\* the extra variables
BuildEnv(ce, t) ==
  InsertAll(
    InsertFlags(
      InsertFlags(
        InsertFlags(
          InsertCargo(
            InsertCargo(
              InsertCompiler(
                InsertCompiler(
                  InsertCompiler({}, "CC", t, ce.cc),
                  "CXX", t, ce.cxx),
                "AR", t, ce.ar),
              t, "LINKER", ce.linker),
            t, "RUNNER", ce.runner),
          "CFLAGS", t, ce.cflags),
        "CXXFLAGS", t, ce.cxxflags),
      "LDFLAGS", t, ce.ldflags),
    ce.extra_env)

\* append_flag: the words of flag behind those of flags
AppendFlag(flags, flag) == flags \o flag

\* build_rustflags, with crt_static, panic_immediate_abort, fmt_debug and
\* location_detail not given
BuildRustflags(a, ce, e) ==
    AppendFlag(AppendFlag(UnwrapOrDefault(Get(e, <<"RUSTFLAGS">>)),
                          ce.rustflags),
               a.rustflags)

\* add_compiler_flags_env, for one kind of flags
AddFlags(m, name, t, o) ==
    IF IsSome(o)
    THEN InsertBoth(m, name, t,
           IF UnwrapOrDefault(Get(m, TargetKey(name, t))) = <<>>
           THEN Unwrap(o)
           ELSE UnwrapOrDefault(Get(m, TargetKey(name, t)))
                    \o Unwrap(o))
    ELSE m

\* add_compiler_flags_env
AddCompilerFlagsEnv(m, a, t) ==
    AddFlags(AddFlags(AddFlags(m, "CFLAGS", t, a.cflags),
                      "CXXFLAGS", t, a.cxxflags),
             "LDFLAGS", t, a.ldflags)

\* build_cargo_env, for a target other than the host triple and with the
\* sccache, wrapper, cc-crate, trim-paths and bootstrap options not given
BuildCargoEnv(t, a, ce, e) ==
    AddCompilerFlagsEnv(
      IF BuildRustflags(a, ce, e) # <<>>
      THEN Insert(BuildEnv(ce, t), <<"RUSTFLAGS">>, BuildRustflags(a, ce, e))
      ELSE BuildEnv(ce, t),
      a, t)

\* clap: the value of an option with env = name: the command line first,
\* then the variable
ClapValue(o, e, name) == IF IsSome(o) THEN o ELSE Get(e, <<name>>)

\* parse_args and finalize_args
ParseArgs(c, e, udl, nts, needs) ==
    [use_default_linker |-> udl, no_toolchain_setup |-> nts,
     needs_runner |-> needs,
     cc |-> ClapValue(c.cc, e, "CC"),
     cxx |-> ClapValue(c.cxx, e, "CXX"),
     ar |-> ClapValue(c.ar, e, "AR"),
     linker |-> ClapValue(c.linker, e, "LINKER"),
     cflags |-> ClapValue(c.cflags, e, "CFLAGS"),
     cxxflags |-> ClapValue(c.cxxflags, e, "CXXFLAGS"),
     ldflags |-> ClapValue(c.ldflags, e, "LDFLAGS"),
     rustflags |-> c.rustflags]

\* execute_target: the choice between the preconfigured environment, the
\* provisioner of the target and the default environment
SelectCrossEnv ==
    /\ evPc = "precheck"
    /\ IF IsSome(CheckPreconfiguredEnv(target, args, penv))
       THEN /\ crossEnv' = Unwrap(CheckPreconfiguredEnv(target, args, penv))
            /\ evPc' = "compose"
       ELSE IF IsSome(GetTargetConfig(target))
            THEN /\ evPc' = "setup"
                 /\ UNCHANGED crossEnv
            ELSE /\ crossEnv' = CrossEnvNew
                 /\ evPc' = "compose"
    /\ UNCHANGED <<target, penv, cli, args, tcCached, composed, provisioner,
                   httpIssued>>
    /\ UNCHANGED envRest

\* setup_cross_env: the provisioner of the target's os downloads the
\* toolchain if it is not in the cache, fills in the CrossEnv and sets up a
\* runner
SetupCrossEnv ==
    /\ evPc = "setup"
    /\ IF args.no_toolchain_setup
       THEN /\ crossEnv' = CrossEnvNew
            /\ evPc' = "compose"
            /\ UNCHANGED <<tcCached, provisioner, httpIssued>>
       ELSE /\ provisioner' = EnvConfig(target).os
            /\ \E served \in BOOLEAN, libs \in BOOLEAN, tools \in EnvTools :
                 IF ~tcCached /\ ~served
                 THEN /\ httpIssued' = TRUE
                      /\ evPc' = "failed"
                      /\ UNCHANGED <<tcCached, crossEnv>>
                 ELSE LET r == ProvisionRunner(EnvConfig(target), EnvHost,
                                               args.needs_runner, tools)
                      IN /\ tcCached' = TRUE
                         /\ httpIssued' = (httpIssued \/ ~tcCached \/ r.http)
                         /\ IF r.err
                            THEN /\ evPc' = "failed"
                                 /\ UNCHANGED crossEnv
                            ELSE /\ evPc' = "compose"
                                 /\ crossEnv' =
                                      [ToolchainEnv(EnvConfig(target).os, libs)
                                         EXCEPT !.runner =
                                           IF r.calls # <<>>
                                           THEN Some(<<r.calls[1]>>)
                                           ELSE None]
    /\ UNCHANGED <<target, penv, cli, args, composed>>
    /\ UNCHANGED envRest

\* execute_cargo: build_cargo_env; the map is handed to the build command
ExecuteCargo ==
    /\ evPc = "compose"
    /\ composed' = BuildCargoEnv(target, args, crossEnv, penv)
    /\ evPc' = "done"
    /\ UNCHANGED <<target, penv, cli, args, tcCached, crossEnv, provisioner,
                   httpIssued>>
    /\ UNCHANGED envRest

\* the compiler variables of the target a process environment may hold
PenvTarget(t) ==
    {{},
     {<<TargetKey("CC", t), <<"t-gcc">>>>},
     {<<TargetKey("CC", t), <<"t-gcc">>>>,
      <<TargetKey("CXX", t), <<"t-g++">>>>,
      <<TargetKey("AR", t), <<"t-ar">>>>,
      <<CargoKey(t, "LINKER"), <<"t-ld">>>>,
      <<CargoKey(t, "RUNNER"), <<"t-run">>>>},
     {<<TargetKey("CC", t), <<>>>>}}

\* the generic compiler variables a process environment may hold
PenvGeneric ==
    {{},
     {<<<<"CC">>, <<"my-gcc">>>>},
     {<<<<"CC">>, <<"my-gcc">>>>, <<<<"CXX">>, <<"my-g++">>>>},
     {<<<<"CC">>, <<"my-clang">>>>, <<<<"CXX">>, <<"my-clang++">>>>,
      <<<<"AR">>, <<"llvm-ar">>>>, <<<<"LINKER">>, <<"my-ld">>>>,
      <<<<"RUNNER">>, <<"my-run">>>>}}

\* the flag variables a process environment may hold
PenvFlags ==
    {{},
     {<<<<"RUSTFLAGS">>, <<"-C", "env-flag">>>>},
     {<<<<"RUSTFLAGS">>, <<"-C", "env-flag">>>>,
      <<<<"CFLAGS">>, <<"-Oenv">>>>,
      <<<<"CXXFLAGS">>, <<"-Oenv++">>>>,
      <<<<"LDFLAGS">>, <<"-Lenv">>>>}}

\* the options a command line may give
CliChoices ==
    {c \in [cc : {None, Some(<<"user-cc">>)},
            cxx : {None, Some(<<"user-c++">>)},
            ar : {None, Some(<<"user-ar">>)},
            linker : {None, Some(<<"user-ld">>)},
            cflags : {None, Some(<<"-Ouser">>)},
            cxxflags : {None, Some(<<"-Ouser++">>)},
            ldflags : {None, Some(<<"-Luser">>)},
            rustflags : {<<>>, <<"-C", "user-flag">>}] :
        /\ (c.cxx = None) = (c.ar = None)
        /\ (c.cflags = None) = (c.cxxflags = None)
        /\ (c.cflags = None) = (c.ldflags = None)}

\* the CrossEnv values a caller of execute_cargo may pass
AnyCrossEnv ==
    [cc : {None, Some(<<"x-cc">>)}, cxx : {None, Some(<<"x-c++">>)},
     ar : {None, Some(<<"x-ar">>)}, linker : {None}, runner : {None},
     rustflags : {<<>>, <<"-L", "x/lib">>},
     cflags : {<<>>, <<"-tc1", "-tc2">>},
     cxxflags : {<<>>, <<"-tcxx">>},
     ldflags : {<<>>, <<"-tld">>},
     extra_env : {{}, {<<<<"COMPILER_PATH">>, <<"x/bin">>>>}}]

\* execute_target after ensure_target_installed
InitEnvFlow ==
    /\ evPc = "precheck"
    /\ target \in EnvTargets
    /\ penv \in {pt \cup pg \cup pf :
                   pt \in PenvTarget(target), pg \in PenvGeneric, pf \in PenvFlags}
    /\ cli \in CliChoices
    /\ args \in {ParseArgs(cli, penv, udl, nts, needs) :
                   udl \in BOOLEAN, nts \in BOOLEAN, needs \in BOOLEAN}
    /\ ~(args.use_default_linker /\ IsSome(args.linker))
    /\ tcCached \in BOOLEAN
    /\ crossEnv = CrossEnvNew

\* execute_cargo called with a CrossEnv of the caller's making
InitEnvCall ==
    /\ evPc = "compose"
    /\ target \in EnvTargets
    /\ penv \in PenvFlags
    /\ cli \in {c \in CliChoices : c.cc = None /\ c.cxx = None /\ c.linker = None}
    /\ args = ParseArgs(cli, penv, FALSE, FALSE, FALSE)
    /\ tcCached = FALSE
    /\ crossEnv \in AnyCrossEnv

InitEnv ==
    /\ InitEnvFlow \/ InitEnvCall
    /\ composed = {}
    /\ provisioner = "none"
    /\ httpIssued = FALSE
    /\ DlIdle
    /\ ExIdle
    /\ OrIdle
    /\ RnIdle
    /\ FnIdle

NextEnv ==
    \/ SelectCrossEnv
    \/ SetupCrossEnv
    \/ ExecuteCargo

SpecEnv == InitEnv /\ [][NextEnv]_vars

\* the process environment holds preconfigured compiler variables for the
\* target: a non-empty CC_<target>, or a non-empty CC and a non-empty CXX
Preconfigured(t, e) ==
    \/ IsSome(GetEnv(e, TargetKey("CC", t)))
    \/ IsSome(GetEnv(e, <<"CC">>)) /\ IsSome(GetEnv(e, <<"CXX">>))

\* the C compiler the preconfigured variables name
PreconfiguredCc(t, e) ==
    IF IsSome(GetEnv(e, TargetKey("CC", t)))
    THEN GetEnv(e, TargetKey("CC", t))
    ELSE GetEnv(e, <<"CC">>)

\* provisioning was short-circuited: no provisioner ran, no HTTP request was
\* issued, and the CrossEnv handed on holds the preconfigured compiler
ShortCircuited ==
    /\ provisioner = "none"
    /\ ~httpIssued
    /\ evPc \notin {"setup", "failed"}
    /\ evPc \in {"compose", "done"} => crossEnv.cc = PreconfiguredCc(target, penv)

\* C12: if the process environment holds preconfigured compiler variables
\* for the target, provisioning is short-circuited for every kind of
\* invocation: no provisioner runs, no HTTP request is issued, and the
\* CrossEnv is built from those variables.
C12_PreconfiguredShortCircuits ==
    Preconfigured(target, penv) => ShortCircuited

\* C12, amended: the same, for the invocations that do not ask for the
\* default linker (--use-default-linker, or no --target so that the host
\* triple is built).
C12_ShortCircuitsUnlessDefaultLinker ==
    (Preconfigured(target, penv) /\ ~args.use_default_linker) => ShortCircuited

\* a registered target whose toolchain is not cached was built from the
\* preconfigured target-specific compiler
W12_PreconfiguredUsed ==
    /\ Preconfigured(target, penv)
    /\ ~args.use_default_linker
    /\ ~args.no_toolchain_setup
    /\ IsSome(GetTargetConfig(target))
    /\ ~tcCached
    /\ evPc = "done"
    /\ crossEnv.cc = Some(<<"t-gcc">>)

\* the names of the compiler fields and flag lists of a CrossEnv
PairedNames == {"CC", "CXX", "AR", "CFLAGS", "CXXFLAGS", "LDFLAGS"}

\* the compiler field is set, or the flag list is not empty
FieldSet(ce, name) ==
    CASE name = "CC" -> IsSome(ce.cc)
      [] name = "CXX" -> IsSome(ce.cxx)
      [] name = "AR" -> IsSome(ce.ar)
      [] name = "CFLAGS" -> ce.cflags # <<>>
      [] name = "CXXFLAGS" -> ce.cxxflags # <<>>
      [] name = "LDFLAGS" -> ce.ldflags # <<>>

\* C17: in the composed map every set compiler field and every non-empty
\* flag list of the CrossEnv is present under the generic key and under the
\* target-suffixed key, whose target has every '-' replaced by '_', and the
\* two keys carry the same value, user flags included.
C17_BothKeysSameValue ==
    evPc = "done" =>
        \A name \in PairedNames :
            /\ Get(composed, <<name>>) = Get(composed, TargetKey(name, target))
            /\ FieldSet(crossEnv, name) => IsSome(Get(composed, <<name>>))
            /\ \A i \in 1..Len(TargetKey(name, target)) :
                   TargetKey(name, target)[i] # "-"

\* a CrossEnv with a compiler and toolchain C flags was composed for a
\* target with dashes and the user's C flags were merged in
W17_BothKeysWithUserFlags ==
    /\ evPc = "done"
    /\ target = LinuxTarget
    /\ crossEnv.cc = Some(<<"x-cc">>)
    /\ Get(composed, TargetKey("CC", target)) = Some(<<"x-cc">>)
    /\ Get(composed, <<"CFLAGS">>) = Some(<<"-tc1", "-tc2", "-Ouser">>)
    /\ Get(composed, TargetKey("CFLAGS", target))
           = Some(<<"-tc1", "-tc2", "-Ouser">>)

\* the words of s, as a set
Words(s) == {s[i] : i \in 1..Len(s)}

\* val starts with all the toolchain flags tc, in order, and every flag of
\* user comes after them
UserAfterToolchain(val, tc, user) ==
    /\ Len(val) >= Len(tc)
    /\ SubSeq(val, 1, Len(tc)) = tc
    /\ Words(user) \subseteq Words(SubSeq(val, Len(tc) + 1, Len(val)))

\* the composed value of a variable, empty if the variable is absent
Composed(k) == UnwrapOrDefault(Get(composed, k))

\* in the composed CFLAGS, CXXFLAGS and LDFLAGS every toolchain flag is
\* present and the user's flags, from the command line or from the
\* environment, come after them
L18_CompilerFlagsUserLast ==
    evPc = "done" =>
        /\ UserAfterToolchain(Composed(<<"CFLAGS">>), crossEnv.cflags,
                              UnwrapOrDefault(args.cflags))
        /\ UserAfterToolchain(Composed(<<"CXXFLAGS">>), crossEnv.cxxflags,
                              UnwrapOrDefault(args.cxxflags))
        /\ UserAfterToolchain(Composed(<<"LDFLAGS">>), crossEnv.ldflags,
                              UnwrapOrDefault(args.ldflags))

\* C18: in the composed CFLAGS, CXXFLAGS, LDFLAGS and RUSTFLAGS every
\* toolchain flag is present and every user flag, from the command line or
\* from the environment, comes after all toolchain flags.
C18_UserFlagsAfterToolchain ==
    evPc = "done" =>
        /\ L18_CompilerFlagsUserLast
        /\ UserAfterToolchain(Composed(<<"RUSTFLAGS">>), crossEnv.rustflags,
                              UnwrapOrDefault(Get(penv, <<"RUSTFLAGS">>))
                                  \o args.rustflags)

\* C19: when the user gives an explicit linker, the composed environment
\* does not carry the toolchain's default linker: the key
\* CARGO_TARGET_<TARGET>_LINKER is absent or holds the user's linker.
C19_ExplicitLinkerExclusive ==
    (evPc = "done" /\ IsSome(args.linker)) =>
        Get(composed, CargoKey(target, "LINKER")) \in {None, args.linker}

\* the composed environment holds the user's path under the generic and the
\* target-suffixed key
HoldsUserPath(name, o) ==
    IsSome(o) =>
        /\ Get(composed, <<name>>) = o
        /\ Get(composed, TargetKey(name, target)) = o

\* C20: when the user overrides the C compiler, the C++ compiler or the
\* archiver with --cc, --cxx or --ar, the composed environment holds the
\* user's path under CC, CXX or AR, generic and target-suffixed.
C20_CompilerOverridesUsed ==
    evPc = "done" =>
        /\ HoldsUserPath("CC", cli.cc)
        /\ HoldsUserPath("CXX", cli.cxx)
        /\ HoldsUserPath("AR", cli.ar)

\* C21: when use_default_linker is set, by the option or because no target
\* was given, the composed environment holds no CARGO_TARGET_<TARGET>_LINKER
\* key that names a cross-compiler.
C21_DefaultLinkerNoCrossLinker ==
    (evPc = "done" /\ args.use_default_linker) =>
        Get(composed, CargoKey(target, "LINKER")) = None

\* the same when no provisioner ran
L21_DefaultLinkerWithoutProvisioner ==
    (evPc = "done" /\ args.use_default_linker /\ provisioner = "none") =>
        Get(composed, CargoKey(target, "LINKER")) = None

(***************************************************************************)
(* Target patterns: expand_targets (config.rs) and expand_target_list      *)
(* (cli.rs).  A string is the sequence of its words; "-", ",", "\n", " "   *)
(* and the pattern characters are words of their own.                      *)
(***************************************************************************)
MuslTarget == <<"x86_64", "-", "unknown", "-", "linux", "-", "musl">>

Aarch64MuslTarget == <<"aarch64", "-", "unknown", "-", "linux", "-", "musl">>

\* the keys of the registry, reduced to four of its triples
TARGETS == {LinuxTarget, DarwinTarget, MuslTarget, Aarch64MuslTarget}

\* the place of a word of a registered triple in byte order
ByteRank(w) ==
    CASE w = "-" -> 0
      [] w = "aarch64" -> 1
      [] w = "apple" -> 3
      [] w = "darwin" -> 4
      [] w = "gnu" -> 5
      [] w = "linux" -> 6
      [] w = "musl" -> 7
      [] w = "unknown" -> 8
      [] w = "x86_64" -> 9

\* Ord for str: a < b in lexicographic byte order
RECURSIVE StrLess(_, _)
StrLess(a, b) ==
    IF b = <<>> THEN FALSE
    ELSE IF a = <<>> THEN TRUE
    ELSE IF Head(a) = Head(b) THEN StrLess(Tail(a), Tail(b))
    ELSE ByteRank(Head(a)) < ByteRank(Head(b))

\* x put into the sorted sequence s
RECURSIVE InsertSorted(_, _)
InsertSorted(s, x) ==
    IF s = <<>> THEN <<x>>
    ELSE IF StrLess(Head(s), x) THEN <<Head(s)>> \o InsertSorted(Tail(s), x)
    ELSE <<x>> \o s

RECURSIVE SortUnstable(_)

\* a sort that leaves the sequence as the map handed it over
SortUnstableNot(s) == s

\* slice::sort_unstable
SortUnstable(s) ==
    IF s = <<>> THEN <<>> ELSE InsertSorted(SortUnstable(Tail(s)), Head(s))

\* str::trim: the blanks at both ends are dropped
RECURSIVE Trim(_)
Trim(s) ==
    IF s = <<>> THEN <<>>
    ELSE IF Head(s) = " " THEN Trim(Tail(s))
    ELSE IF s[Len(s)] = " " THEN Trim(SubSeq(s, 1, Len(s) - 1))
    ELSE s

\* str::contains for one character
Contains(s, w) == \E i \in 1..Len(s) : s[i] = w

\* globset::Glob::new returns an error: a bracket that is not closed
GlobInvalid(p) == Contains(p, "[") /\ ~Contains(p, "]")

\* GlobMatcher::is_match for a pattern of literal words and "*"
RECURSIVE GlobIsMatch(_, _)
GlobIsMatch(p, t) ==
    IF p = <<>> THEN t = <<>>
    ELSE IF Head(p) = "*"
         THEN \/ GlobIsMatch(Tail(p), t)
              \/ t # <<>> /\ GlobIsMatch(p, Tail(t))
         ELSE t # <<>> /\ Head(t) = Head(p) /\ GlobIsMatch(Tail(p), Tail(t))

\* regex::Regex::new returns an error: a group that is not closed
RegexInvalid(p) == Contains(p, "(") /\ ~Contains(p, ")")

\* the regex p matches at the start of t; p holds literal words and ".*"
RECURSIVE RegexMatchHere(_, _)
RegexMatchHere(p, t) ==
    IF p = <<>> THEN TRUE
    ELSE IF Head(p) = ".*"
         THEN \E k \in 0..Len(t) : RegexMatchHere(Tail(p), SubSeq(t, k + 1, Len(t)))
         ELSE t # <<>> /\ Head(t) = Head(p) /\ RegexMatchHere(Tail(p), Tail(t))

\* Regex::is_match: a search, anchored only by "^"
RegexIsMatch(p, t) ==
    IF p # <<>> /\ Head(p) = "^"
    THEN RegexMatchHere(Tail(p), t)
    ELSE \E k \in 0..Len(t) : RegexMatchHere(p, SubSeq(t, k + 1, Len(t)))

\* Iterator::filter over TARGETS.keys(), which come in the order of the map
RECURSIVE Filter(_, _, _)
Filter(keys, p, kind) ==
    IF keys = <<>> THEN <<>>
    ELSE (IF \/ kind = "all"
             \/ kind = "regex" /\ RegexIsMatch(p, Head(keys))
             \/ kind = "glob" /\ GlobIsMatch(p, Head(keys))
          THEN <<Head(keys)>> ELSE <<>>)
         \o Filter(Tail(keys), p, kind)

\* expand_targets(pattern); keys is TARGETS.keys() in the order of the map
ExpandTargets(pattern, keys) ==
    LET p == Trim(pattern)
    IN SortUnstable(
         IF p = <<"all">> THEN Filter(keys, p, "all")
         ELSE IF p # <<>> /\ Head(p) = "~"
              THEN IF RegexInvalid(Tail(p)) THEN <<>>
                   ELSE Filter(keys, Tail(p), "regex")
         ELSE IF Contains(p, "*") \/ Contains(p, "?") \/ Contains(p, "[")
                     \/ Contains(p, "{")
              THEN IF GlobInvalid(p) THEN <<>> ELSE Filter(keys, p, "glob")
         ELSE IF p \in TARGETS THEN <<p>> ELSE <<>>)

\* str::split([',', '\n']): the pieces between the separators
RECURSIVE Split(_)
Split(s) ==
    IF \E i \in 1..Len(s) : s[i] \in {",", "\n"}
    THEN LET i == CHOOSE j \in 1..Len(s) :
                    /\ s[j] \in {",", "\n"}
                    /\ \A k \in 1..(j - 1) : s[k] \notin {",", "\n"}
         IN <<SubSeq(s, 1, i - 1)>> \o Split(SubSeq(s, i + 1, Len(s)))
    ELSE <<s>>

\* Vec::contains
VecContains(v, x) == \E i \in 1..Len(v) : v[i] = x

\* an append that does not look for the element first
PushNewAlways(v, x) == Append(v, x)

\* if !result.contains(&t) { result.push(t) }
PushNew(v, x) == IF VecContains(v, x) THEN v ELSE Append(v, x)

\* the inner loop over an expansion
RECURSIVE PushAll(_, _)
PushAll(v, xs) ==
    IF xs = <<>> THEN v ELSE PushAll(PushNew(v, Head(xs)), Tail(xs))

\* the values of one --target argument
ArgTwo == MuslTarget \o <<",">> \o Aarch64MuslTarget

ArgGlob == <<"*", "-", "linux", "-", "musl">>

ArgMixed == CustomTarget \o <<"\n", "~", "^", "x86_64", ",", "all">>

ArgBlank == <<" ", "aarch64", "-", "*", " ", ",", ",", "[", "x86_64">>

ArgRegex == <<"~", "linux", ",", "*", "-", "none", ",", "~", "(">>

TargetArgs == {ArgTwo, ArgGlob, ArgMixed, ArgBlank, ArgRegex}

\* the lists of --target arguments of a command line
TargetArgLists ==
    UNION {[1..n -> TargetArgs] : n \in 1..MaxTargetArgs}

\* the orders in which a HashMap may hand over its keys
KeyOrders ==
    {s \in [1..Cardinality(TARGETS) -> TARGETS] :
        \A i, j \in 1..Cardinality(TARGETS) : i # j => s[i] # s[j]}

\* expand_target_list: the outer loop takes the next argument and splits it
SplitTarget ==
    /\ xpPc = "loop"
    /\ xpParts = <<>>
    /\ xpNext <= Len(xpTargets)
    /\ xpParts' = Split(xpTargets[xpNext])
    /\ xpNext' = xpNext + 1
    /\ UNCHANGED <<xpPc, xpKeys, xpTargets, xpPart, xpExpanded, xpResult>>
    /\ UNCHANGED xpRest

\* expand_target_list: the inner loop trims the next piece, skips it if it
\* is empty, expands it and pushes what is new
ExpandPart ==
    /\ xpPc = "loop"
    /\ xpParts # <<>>
    /\ xpParts' = Tail(xpParts)
    /\ IF Trim(Head(xpParts)) = <<>>
       THEN UNCHANGED <<xpPart, xpExpanded, xpResult>>
       ELSE /\ xpPart' = Trim(Head(xpParts))
            /\ xpExpanded' = ExpandTargets(Trim(Head(xpParts)), xpKeys)
            /\ xpResult' =
                 IF ExpandTargets(Trim(Head(xpParts)), xpKeys) = <<>>
                 THEN PushNew(xpResult, Trim(Head(xpParts)))
                 ELSE PushAll(xpResult,
                              ExpandTargets(Trim(Head(xpParts)), xpKeys))
    /\ UNCHANGED <<xpPc, xpKeys, xpTargets, xpNext>>
    /\ UNCHANGED xpRest

\* expand_target_list returns result
ReturnTargets ==
    /\ xpPc = "loop"
    /\ xpParts = <<>>
    /\ xpNext > Len(xpTargets)
    /\ xpPc' = "done"
    /\ UNCHANGED <<xpKeys, xpTargets, xpNext, xpParts, xpPart, xpExpanded,
                   xpResult>>
    /\ UNCHANGED xpRest

InitExp ==
    /\ xpPc = "loop"
    /\ xpKeys \in KeyOrders
    /\ xpTargets \in TargetArgLists
    /\ xpNext = 1
    /\ xpParts = <<>>
    /\ xpPart = <<>>
    /\ xpExpanded = <<>>
    /\ xpResult = <<>>
    /\ DlIdle
    /\ ExIdle
    /\ OrIdle
    /\ EnvIdle
    /\ RnIdle
    /\ FdIdle
    /\ FfIdle
    /\ ZpIdle
    /\ RcIdle

NextExp ==
    \/ SplitTarget
    \/ ExpandPart
    \/ ReturnTargets

SpecExp == InitExp /\ [][NextExp]_vars

\* the elements of a sequence
Range(s) == {s[i] : i \in 1..Len(s)}

\* a name without glob or regex metacharacters
Plain(p) ==
    Range(p) \cap {"*", "?", "[", "]", "{", "}", "~", "^", "(", ")", ".*"} = {}

\* C22: expand_targets returns a lexicographically sorted list of registered
\* triples without duplicates: all of them for "all", the triple itself for
\* a registered name, nothing for a plain name that is not registered.
C22_ExpandSortedRegistered ==
    xpPart # <<>> =>
        /\ \A i \in 1..(Len(xpExpanded) - 1) :
               StrLess(xpExpanded[i], xpExpanded[i + 1])
        /\ Range(xpExpanded) \subseteq TARGETS
        /\ xpPart = <<"all">> => Range(xpExpanded) = TARGETS
        /\ xpPart \in TARGETS => xpExpanded = <<xpPart>>
        /\ (Plain(xpPart) /\ xpPart \notin TARGETS /\ xpPart # <<"all">>)
               => xpExpanded = <<>>

\* "all" was expanded from a map that did not hand its keys over in order
W22_AllFromUnsortedMap ==
    /\ xpPart = <<"all">>
    /\ Len(xpExpanded) = Cardinality(TARGETS)
    /\ xpKeys[1] = MuslTarget
    /\ xpExpanded[1] = LinuxTarget

\* the patterns of a list of arguments: the pieces, trimmed, without the
\* empty ones
RECURSIVE PartsOf(_)
PartsOf(pieces) ==
    IF pieces = <<>> THEN <<>>
    ELSE (IF Trim(Head(pieces)) = <<>> THEN <<>> ELSE <<Trim(Head(pieces))>>)
         \o PartsOf(Tail(pieces))

RECURSIVE AllParts(_)
AllParts(targets) ==
    IF targets = <<>> THEN <<>>
    ELSE PartsOf(Split(Head(targets))) \o AllParts(Tail(targets))

\* what one pattern stands for: its expansion, or itself if that is empty
Contribution(p) ==
    IF ExpandTargets(p, xpKeys) = <<>> THEN {p}
    ELSE Range(ExpandTargets(p, xpKeys))

\* the first pattern of the arguments that stands for x
FirstGroup(x) ==
    CHOOSE g \in 1..Len(AllParts(xpTargets)) :
        /\ x \in Contribution(AllParts(xpTargets)[g])
        /\ \A h \in 1..(g - 1) : x \notin Contribution(AllParts(xpTargets)[h])

\* C23: the expanded target list has no duplicates, is the union of the
\* expansions of the patterns (a pattern that matches nothing stands for
\* itself), and is in first-seen order across the patterns and in sorted
\* order inside one expansion.
C23_TargetListIsOrderedUnion ==
    xpPc = "done" =>
        /\ \A i, j \in 1..Len(xpResult) : i # j => xpResult[i] # xpResult[j]
        /\ Range(xpResult)
               = UNION {Contribution(AllParts(xpTargets)[g]) :
                          g \in 1..Len(AllParts(xpTargets))}
        /\ \A i, j \in 1..Len(xpResult) :
               i < j =>
                   \/ FirstGroup(xpResult[i]) < FirstGroup(xpResult[j])
                   \/ /\ FirstGroup(xpResult[i]) = FirstGroup(xpResult[j])
                      /\ StrLess(xpResult[i], xpResult[j])

\* two names in an order that is not the sorted one, followed by a glob that
\* matches both again
W23_FirstSeenOrderKept ==
    /\ xpPc = "done"
    /\ xpTargets = <<ArgTwo, ArgGlob>>
    /\ xpResult = <<MuslTarget, Aarch64MuslTarget>>

(***************************************************************************)
(* Toolchain names: get_linux_bin_prefix and get_linux_folder_name         *)
(* (platform/mod.rs).  A name is the sequence of its words; "-" is a word  *)
(* of its own, and so is a glibc version.                                  *)
(***************************************************************************)
DEFAULT_GLIBC_VERSION == "2.28"

\* some of the versions --glibc-version accepts
SUPPORTED_GLIBC_VERSIONS == {"2.28", "2.31", "2.42"}

\* Arch::as_str of some architectures
FolderArchs == {"x86_64", "aarch64", "armv7"}

\* Libc::as_str of the C libraries of the Linux targets
FolderLibcs == {"musl", "gnu"}

\* Abi::as_str of the ABIs, None for a target without one
FolderAbis == {None, Some("eabi"), Some("eabihf"), Some("abiv2")}

\* Abi::is_gnu_abi_variant: gnusf, gnuspe, gnuabiv2, gnuabiv2hf
IsGnuAbiVariant(abi) == abi \in {"sf", "spe", "abiv2", "abiv2hf"}

\* abi.map_or("", |a| a.as_str())
AbiStr(abi) == IF IsSome(abi) THEN <<Unwrap(abi)>> ELSE <<>>

\* get_linux_bin_prefix
GetLinuxBinPrefix(arch, libc, abi) ==
    IF IsSome(abi) /\ IsGnuAbiVariant(Unwrap(abi)) /\ libc = "gnu"
    THEN <<arch, "-", "linux", "-", "gnu", Unwrap(abi)>>
    ELSE <<arch, "-", "linux", "-", libc>> \o AbiStr(abi)

\* a folder name that leaves the version out
GetLinuxFolderNameBare(arch, libc, abi, glibc_version, default_glibc_version) ==
    <<arch, "-", "linux", "-", libc>> \o AbiStr(abi) \o <<"-", "cross">>

\* get_linux_folder_name
GetLinuxFolderName(arch, libc, abi, glibc_version, default_glibc_version) ==
    IF IsSome(abi) /\ IsGnuAbiVariant(Unwrap(abi)) /\ libc = "gnu"
    THEN LET abi_suffix == Unwrap(abi)
             folder_suffix ==
                 IF glibc_version = default_glibc_version
                 THEN <<"gnu", abi_suffix>>
                 ELSE <<"gnu", abi_suffix, "-", glibc_version>>
         IN <<arch, "-", "linux", "-">> \o folder_suffix \o <<"-", "cross">>
    ELSE LET folder_suffix ==
                 IF libc = "gnu" /\ glibc_version # default_glibc_version
                 THEN <<libc>> \o AbiStr(abi) \o <<"-", glibc_version>>
                 ELSE <<libc>> \o AbiStr(abi)
         IN <<arch, "-", "linux", "-">> \o folder_suffix \o <<"-", "cross">>

\* linux::setup derives the binary prefix of the target
BinPrefix ==
    /\ fdPc = "prefix"
    /\ fdPrefix' = GetLinuxBinPrefix(fdArch, fdLibc, fdAbi)
    /\ fdPc' = "folder"
    /\ UNCHANGED <<fdArch, fdLibc, fdAbi, fdVersion, fdOther, fdFolder,
                   fdFolderOther>>
    /\ UNCHANGED fdRest

\* linux::setup derives the folder name, here for the glibc versions of two
\* invocations
FolderName ==
    /\ fdPc = "folder"
    /\ fdFolder' = GetLinuxFolderName(fdArch, fdLibc, fdAbi, fdVersion,
                                      DEFAULT_GLIBC_VERSION)
    /\ fdFolderOther' = GetLinuxFolderName(fdArch, fdLibc, fdAbi, fdOther,
                                           DEFAULT_GLIBC_VERSION)
    /\ fdPc' = "done"
    /\ UNCHANGED <<fdArch, fdLibc, fdAbi, fdVersion, fdOther, fdPrefix>>
    /\ UNCHANGED fdRest

InitFolder ==
    /\ fdPc = "prefix"
    /\ fdArch \in FolderArchs
    /\ fdLibc \in FolderLibcs
    /\ fdAbi \in FolderAbis
    /\ fdVersion \in SUPPORTED_GLIBC_VERSIONS
    /\ fdOther \in SUPPORTED_GLIBC_VERSIONS
    /\ fdPrefix = <<>>
    /\ fdFolder = <<>>
    /\ fdFolderOther = <<>>
    /\ DlIdle
    /\ ExIdle
    /\ OrIdle
    /\ EnvIdle
    /\ RnIdle
    /\ XpIdle
    /\ FfIdle
    /\ ZpIdle
    /\ RcIdle

NextFolder ==
    \/ BinPrefix
    \/ FolderName

SpecFolder == InitFolder /\ [][NextFolder]_vars

\* the name ends with "-<version>-cross"
VersionSuffixed(name, version) ==
    /\ Len(name) > 4
    /\ SubSeq(name, Len(name) - 3, Len(name)) = <<"-", version, "-", "cross">>

\* C25: the binary prefix does not contain the glibc version; the folder
\* name is the prefix with "-cross" appended, with "-<version>" in between
\* exactly when the libc is gnu and the version is not the default one; two
\* different versions of one gnu target have different folder names.
C25_FolderNameVersioned ==
    fdPc = "done" =>
        /\ \A i \in 1..Len(fdPrefix) : fdPrefix[i] # fdVersion
        /\ VersionSuffixed(fdFolder, fdVersion)
               <=> (fdLibc = "gnu" /\ fdVersion # DEFAULT_GLIBC_VERSION)
        /\ fdFolder = fdPrefix
               \o (IF fdLibc = "gnu" /\ fdVersion # DEFAULT_GLIBC_VERSION
                   THEN <<"-", fdVersion>> ELSE <<>>)
               \o <<"-", "cross">>
        /\ (fdLibc = "gnu" /\ fdVersion # fdOther)
               => fdFolder # fdFolderOther

\* a gnu target with an ABI, once with the default and once with another
\* version of glibc
W25_DefaultAndCustomVersion ==
    /\ fdPc = "done"
    /\ fdLibc = "gnu"
    /\ fdAbi = Some("eabihf")
    /\ fdVersion = "2.31"
    /\ fdOther = DEFAULT_GLIBC_VERSION
    /\ fdFolder = <<"armv7", "-", "linux", "-", "gnu", "eabihf", "-", "2.31",
                    "-", "cross">>
    /\ fdFolderOther = <<"armv7", "-", "linux", "-", "gnu", "eabihf", "-",
                         "cross">>

(***************************************************************************)
(* Compiler lookup: find_file_by_pattern (platform/mod.rs) as the Darwin   *)
(* provisioner calls it.  A file name is the sequence of its words:        *)
(* "clang++-libc++" is "clang", "++", "-", "libc", "++".                   *)
(***************************************************************************)
\* the tool prefix of the osxcross bundle for an architecture
ToolPrefix(arch) == <<arch, "-", "apple", "-", "darwin", "25.2">>

Clang(arch) == ToolPrefix(arch) \o <<"-", "clang">>

ClangPlusPlus(arch) == ToolPrefix(arch) \o <<"-", "clang", "++">>

ClangLibcPlusPlus(arch) ==
    ToolPrefix(arch) \o <<"-", "clang", "++", "-", "libc", "++">>

\* the architectures of the Darwin targets
DarwinArchs == {"x86_64", "aarch64"}

\* file names of the bin directory of a bundle
BinNames ==
    {Clang("x86_64"), ClangPlusPlus("x86_64"), ClangLibcPlusPlus("x86_64"),
     Clang("aarch64"), ToolPrefix("x86_64") \o <<"-", "ar">>}

\* the listings read_dir can give of the directories made of these names
Listings ==
    {s \in UNION {[1..n -> BinNames] : n \in 0..Cardinality(BinNames)} :
        \A i, j \in 1..Len(s) : i # j => s[i] # s[j]}

\* format!("{}-apple-darwin*-clang", arch.as_str())
ClangPattern(arch) == <<arch, "-", "apple", "-", "darwin", "*", "-", "clang">>

\* a matcher that is content with a match of the start of the name
MatcherIsMatchPrefix(pattern, name) ==
    \E k \in 0..Len(name) : GlobIsMatch(pattern, SubSeq(name, 1, k))

\* compile_matcher().is_match(name): the whole name has to match
MatcherIsMatch(pattern, name) == GlobIsMatch(pattern, name)

\* n.strip_suffix("-clang")
StripSuffixClang(name) ==
    IF /\ Len(name) >= 2
       /\ SubSeq(name, Len(name) - 1, Len(name)) = <<"-", "clang">>
    THEN Some(SubSeq(name, 1, Len(name) - 2))
    ELSE None

\* find_file_by_pattern: the next entry is read; it is returned if its name
\* matches
ReadEntry ==
    /\ ffPc = "scan"
    /\ ffNext <= Len(ffDir)
    /\ IF MatcherIsMatch(ffPattern, ffDir[ffNext])
       THEN /\ ffFound' = Some(ffDir[ffNext])
            /\ ffPc' = "found"
            /\ UNCHANGED ffNext
       ELSE /\ ffNext' = ffNext + 1
            /\ UNCHANGED <<ffPc, ffFound>>
    /\ UNCHANGED <<ffDir, ffPattern, ffPrefix, ffErr>>
    /\ UNCHANGED ffRest

\* find_file_by_pattern: the listing is exhausted and None is returned
ReadEnd ==
    /\ ffPc = "scan"
    /\ ffNext > Len(ffDir)
    /\ ffPc' = "missing"
    /\ UNCHANGED <<ffDir, ffPattern, ffNext, ffFound, ffPrefix, ffErr>>
    /\ UNCHANGED ffRest

\* find_file_by_pattern: read_dir or next_entry returns an error, which
\* ends the loop, and None is returned
ReadFails ==
    /\ ffPc = "scan"
    /\ ffErr' = TRUE
    /\ ffPc' = "missing"
    /\ UNCHANGED <<ffDir, ffPattern, ffNext, ffFound, ffPrefix>>
    /\ UNCHANGED ffRest

\* setup_osxcross: the tool prefix is the file name without "-clang"
DeriveToolPrefix ==
    /\ ffPc = "found"
    /\ ffPrefix' = StripSuffixClang(Unwrap(ffFound))
    /\ ffPc' = IF IsSome(StripSuffixClang(Unwrap(ffFound)))
               THEN "done" ELSE "missing"
    /\ UNCHANGED <<ffDir, ffPattern, ffNext, ffFound, ffErr>>
    /\ UNCHANGED ffRest

InitFind ==
    /\ ffPc = "scan"
    /\ ffDir \in Listings
    /\ ffPattern \in {ClangPattern(a) : a \in DarwinArchs}
    /\ ffNext = 1
    /\ ffFound = None
    /\ ffPrefix = None
    /\ ffErr = FALSE
    /\ DlIdle
    /\ ExIdle
    /\ OrIdle
    /\ EnvIdle
    /\ RnIdle
    /\ XpIdle
    /\ FdIdle
    /\ ZpIdle
    /\ RcIdle

NextFind ==
    \/ ReadEntry
    \/ ReadEnd
    \/ ReadFails
    \/ DeriveToolPrefix

SpecFind == InitFind /\ [][NextFind]_vars

\* the listing holds the three clang files of the architecture
HoldsClangFiles(dir, arch) ==
    {Clang(arch), ClangPlusPlus(arch), ClangLibcPlusPlus(arch)}
        \subseteq {dir[i] : i \in 1..Len(dir)}

\* C26: over a bin directory that holds <p>-clang, <p>-clang++ and
\* <p>-clang++-libc++ in any order, the lookup with <arch>-apple-darwin*-clang
\* never returns one of the latter two, returns <p>-clang once the listing
\* has been read, and the tool prefix derived from it is <p>.
C26_LookupMatchesWholeName ==
    \A a \in DarwinArchs :
        (ffPattern = ClangPattern(a) /\ HoldsClangFiles(ffDir, a)) =>
            /\ ffFound \in {None, Some(Clang(a))}
            /\ (ffPc # "scan" /\ ~ffErr) => ffFound = Some(Clang(a))
            /\ ffPc = "done" => ffPrefix = Some(ToolPrefix(a))
            /\ (ffPc = "missing") => ffErr

\* the lookup went past clang++-libc++ and clang++ before it returned clang
W26_ClangListedLast ==
    /\ ffPc = "done"
    /\ ffPattern = ClangPattern("x86_64")
    /\ Len(ffDir) >= 3
    /\ ffDir[1] = ClangLibcPlusPlus("x86_64")
    /\ ffDir[2] = ClangPlusPlus("x86_64")
    /\ ffDir[3] = Clang("x86_64")
    /\ ffFound = Some(Clang("x86_64"))
    /\ ffPrefix = Some(ToolPrefix("x86_64"))

(***************************************************************************)
(* Zip archives: extract_zip_archive (download.rs).  A path is the         *)
(* sequence of its components.                                             *)
(***************************************************************************)
ZipEntry(kind, path, mode) == [k |-> kind, p |-> path, m |-> mode]

\* entries of a zip archive: a directory, files with and without a Unix
\* mode, the same file a second time, a symlink, and an entry whose name
\* leaves the destination (enclosed_name gives None)
ZipEntries ==
    {ZipEntry("dir", <<"bin">>, Some(493)),
     ZipEntry("file", <<"bin", "ar">>, Some(493)),
     ZipEntry("file", <<"bin", "gcc">>, Some(365)),
     ZipEntry("file", <<"bin", "gcc">>, Some(292)),
     ZipEntry("file", <<"README">>, None),
     ZipEntry("symlink", <<"bin", "cc">>, Some(511)),
     ZipEntry("unsafe", <<"..", "evil">>, Some(420))}

\* the archives: their entries in the order of the central directory
ZipArchives ==
    {s \in UNION {[1..n -> ZipEntries] : n \in 0..MaxZipEntries} :
        \A i, j \in 1..Len(s) : i # j => s[i] # s[j]}

\* the place of a path component in byte order
NameRank(w) ==
    CASE w = ".." -> 0
      [] w = "README" -> 1
      [] w = "ar" -> 2
      [] w = "bin" -> 3
      [] w = "cc" -> 4
      [] w = "evil" -> 5
      [] w = "gcc" -> 6

\* Ord for Path: a < b, component by component
RECURSIVE PathLess(_, _)
PathLess(a, b) ==
    IF b = <<>> THEN FALSE
    ELSE IF a = <<>> THEN TRUE
    ELSE IF Head(a) = Head(b) THEN PathLess(Tail(a), Tail(b))
    ELSE NameRank(Head(a)) < NameRank(Head(b))

\* the path and its ancestors
RECURSIVE Ancestors(_)
Ancestors(path) ==
    IF path = <<>> THEN {}
    ELSE {path} \cup Ancestors(SubSeq(path, 1, Len(path) - 1))

RECURSIVE InsertByKey(_, _, _)
InsertByKey(s, x, reverse) ==
    IF s = <<>> THEN <<x>>
    ELSE IF (IF reverse THEN PathLess(Head(s)[1], x[1])
                        ELSE PathLess(x[1], Head(s)[1]))
         THEN <<x>> \o s
         ELSE <<Head(s)>> \o InsertByKey(Tail(s), x, reverse)

RECURSIVE SortByKey(_, _)
SortByKey(s, reverse) ==
    IF s = <<>> THEN <<>>
    ELSE InsertByKey(SortByKey(SubSeq(s, 1, Len(s) - 1), reverse),
                     s[Len(s)], reverse)

\* a sort by the path itself
SortByPath(s) == SortByKey(s, FALSE)

\* files_by_unix_mode.sort_by_key(|(path, _)| Reverse(path.clone()))
SortByReversePath(s) == SortByKey(s, TRUE)

\* extract_zip_archive: the next entry of the archive is materialized; the
\* mode of a regular file is recorded
ExtractEntry ==
    /\ zpPc = "extract"
    /\ zpNext <= Len(zpArchive)
    /\ LET e == zpArchive[zpNext]
       IN /\ zpTree' =
                IF e.k = "unsafe" THEN zpTree
                ELSE zpTree \cup Ancestors(e.p)
          /\ zpModes' = IF e.k = "file" /\ IsSome(e.m)
                        THEN Append(zpModes, <<e.p, Unwrap(e.m)>>)
                        ELSE zpModes
    /\ zpNext' = zpNext + 1
    /\ UNCHANGED <<zpPc, zpArchive, zpApplied>>
    /\ UNCHANGED zpRest

\* extract_zip_archive: reading an entry, creating a directory, a symlink
\* or a file, or copying returns an error
ExtractFails ==
    /\ zpPc = "extract"
    /\ zpNext <= Len(zpArchive)
    /\ zpArchive[zpNext].k # "unsafe"
    /\ zpPc' = "failed"
    /\ UNCHANGED <<zpArchive, zpNext, zpTree, zpModes, zpApplied>>
    /\ UNCHANGED zpRest

\* extract_zip_archive: the loop is over; two or more recorded modes are
\* sorted
SortModes ==
    /\ zpPc = "extract"
    /\ zpNext > Len(zpArchive)
    /\ zpModes' = IF Len(zpModes) > 1 THEN SortByReversePath(zpModes)
                  ELSE zpModes
    /\ zpPc' = "chmod"
    /\ UNCHANGED <<zpArchive, zpNext, zpTree, zpApplied>>
    /\ UNCHANGED zpRest

\* extract_zip_archive: the next recorded mode is applied
SetPermissions ==
    /\ zpPc = "chmod"
    /\ Len(zpApplied) < Len(zpModes)
    /\ zpApplied' = Append(zpApplied, zpModes[Len(zpApplied) + 1])
    /\ UNCHANGED <<zpPc, zpArchive, zpNext, zpTree, zpModes>>
    /\ UNCHANGED zpRest

\* extract_zip_archive: fs::set_permissions returns an error
SetPermissionsFails ==
    /\ zpPc = "chmod"
    /\ Len(zpApplied) < Len(zpModes)
    /\ zpPc' = "failed"
    /\ UNCHANGED <<zpArchive, zpNext, zpTree, zpModes, zpApplied>>
    /\ UNCHANGED zpRest

\* extract_zip_archive: all modes are applied and Ok is returned
ZipExtracted ==
    /\ zpPc = "chmod"
    /\ Len(zpApplied) = Len(zpModes)
    /\ zpPc' = "ok"
    /\ UNCHANGED <<zpArchive, zpNext, zpTree, zpModes, zpApplied>>
    /\ UNCHANGED zpRest

InitZip ==
    /\ zpPc = "extract"
    /\ zpArchive \in ZipArchives
    /\ zpNext = 1
    /\ zpTree = {}
    /\ zpModes = <<>>
    /\ zpApplied = <<>>
    /\ DlIdle
    /\ ExIdle
    /\ OrIdle
    /\ EnvIdle
    /\ RnIdle
    /\ XpIdle
    /\ FdIdle
    /\ FfIdle
    /\ RcIdle

NextZip ==
    \/ ExtractEntry
    \/ ExtractFails
    \/ SortModes
    \/ SetPermissions
    \/ SetPermissionsFails
    \/ ZipExtracted

SpecZip == InitZip /\ [][NextZip]_vars

\* a is a proper ancestor of b
IsAncestor(a, b) == Len(a) < Len(b) /\ SubSeq(b, 1, Len(a)) = a

\* the recorded modes that are still to be applied
PendingModes ==
    IF zpPc \in {"chmod", "ok", "failed"} /\ zpNext > Len(zpArchive)
    THEN SubSeq(zpModes, Len(zpApplied) + 1, Len(zpModes))
    ELSE zpModes

\* the paths the entries of the archives can name
ZipPaths == UNION {Ancestors(e.p) : e \in ZipEntries}

\* C28: no recorded mode is applied before the loop over the entries is over;
\* the modes are applied in descending path order, each recorded mode once;
\* the order puts a path before each of its ancestors, and no path has its
\* mode applied while the mode of a path below it is pending.
C28_PermissionsLastAndReversed ==
    /\ zpApplied # <<>> =>
          /\ zpNext > Len(zpArchive)
          /\ \A e \in {zpArchive[i] : i \in 1..Len(zpArchive)} :
                 e.k # "unsafe" => e.p \in zpTree
    /\ \A i, j \in 1..Len(zpApplied) :
          i < j => ~PathLess(zpApplied[i][1], zpApplied[j][1])
    /\ \A a, b \in ZipPaths :
          IsAncestor(a, b) =>
              SortByReversePath(<<<<a, 0>>, <<b, 0>>>>) = <<<<b, 0>>, <<a, 0>>>>
    /\ \A i \in 1..Len(zpApplied), j \in 1..Len(PendingModes) :
          ~IsAncestor(zpApplied[i][1], PendingModes[j][1])
    /\ zpPc = "ok" =>
          /\ Len(zpApplied) = Len(zpModes)
          /\ \A e \in {zpArchive[i] : i \in 1..Len(zpArchive)} :
                 (e.k = "file" /\ IsSome(e.m)) =>
                     \E i \in 1..Len(zpApplied) :
                         zpApplied[i] = <<e.p, Unwrap(e.m)>>

\* the archive lists bin/ar before bin/gcc and README; the mode of bin/gcc
\* was applied first, and nothing before README was written
W28_AppliedInReverseOrder ==
    /\ zpPc = "ok"
    /\ Len(zpArchive) = 3
    /\ zpArchive[1].p = <<"bin", "ar">>
    /\ zpArchive[2].p = <<"bin", "gcc">>
    /\ zpArchive[3].p = <<"README">>
    /\ Len(zpApplied) = 2
    /\ zpApplied[1][1] = <<"bin", "gcc">>
    /\ zpApplied[2][1] = <<"bin", "ar">>

(***************************************************************************)
(* Runs on one cache directory: download_and_extract, download_archive and *)
(* download_with_resume (download.rs), with what a run leaves on disk.     *)
(* The archive file is `<dest>.tmp.tar.gz` or `<dest>.tmp.zip`, next to    *)
(* the scratch directory `<dest>.tmp`, not inside it.                      *)
(***************************************************************************)
\* the run has not returned and the process is alive
RcRunning == rcPc \notin {"ready", "failed", "killed"}

\* the answer of the server to a GET with `Range: bytes=pos-` (no header for
\* pos = 0): 200 with the whole archive, 206 with the rest of it, or 416 if
\* no byte of the archive is at pos
RangeStatus(pos, ranges) ==
    IF pos = 0 \/ ~ranges THEN 200
    ELSE IF pos < TotalSize THEN 206 ELSE 416

\* setup of the provisioner: the presence check; download_and_extract
\* starts with cleanup_and_create_dir(&temp_dir)
RecoverSetup ==
    /\ rcPc = "setup"
    /\ IF rcDest
       THEN /\ rcPc' = "ready"
            /\ UNCHANGED rcTemp
       ELSE /\ rcPc' = "probe"
            /\ rcTemp' = TRUE
    /\ UNCHANGED <<rcFile, rcCorrupt, rcDest, rcGood, rcRanges, rcRuns,
                   rcPos, rcStatus>>
    /\ UNCHANGED rcRest

\* download_archive: the length of the file that is there is taken and the
\* first request, without a range, is sent
RecoverProbe ==
    /\ rcPc = "probe"
    /\ rcPos' = rcFile
    /\ \/ /\ rcPc' = "request"
          /\ UNCHANGED rcStatus
       \/ /\ ~rcGood
          /\ rcPc' = "errclean"
          /\ rcStatus' = 0
    /\ UNCHANGED <<rcFile, rcCorrupt, rcTemp, rcDest, rcGood, rcRanges,
                   rcRuns>>
    /\ UNCHANGED rcRest

\* download_with_resume: send_request_with_retry_range(Some(downloaded));
\* a status that is neither 2xx nor 206 is returned as an error; else the
\* file is opened, for appending if downloaded > 0
RecoverRequest ==
    /\ rcPc = "request"
    /\ \/ /\ rcStatus' = RangeStatus(rcPos, rcRanges)
          /\ IF RangeStatus(rcPos, rcRanges) \in {200, 206}
             THEN /\ rcPc' = "stream"
                  /\ rcFile' = IF rcPos > 0 THEN rcFile ELSE 0
                  /\ rcCorrupt' = IF rcPos > 0 THEN rcCorrupt ELSE FALSE
             ELSE /\ rcPc' = "errclean"
                  /\ UNCHANGED <<rcFile, rcCorrupt>>
       \/ /\ ~rcGood
          /\ rcStatus' = 0
          /\ rcPc' = "errclean"
          /\ UNCHANGED <<rcFile, rcCorrupt>>
    /\ UNCHANGED <<rcTemp, rcDest, rcGood, rcRanges, rcRuns, rcPos>>
    /\ UNCHANGED rcRest

\* download_with_resume: the body is appended to the file: the rest of the
\* archive after a 206, the whole archive after a 200.  Whether a file that
\* holds the whole archive behind what was there unpacks depends on the
\* format and on where the old part ends
RecoverStream ==
    /\ rcPc = "stream"
    /\ \/ /\ rcStatus = 206 \/ rcPos = 0
          /\ rcFile' = TotalSize
          /\ UNCHANGED rcCorrupt
          /\ rcPc' = "extract"
       \/ /\ rcStatus = 200 /\ rcPos > 0
          /\ rcFile' = TotalSize
          /\ rcCorrupt' \in BOOLEAN
          /\ rcPc' = "extract"
       \/ /\ ~rcGood
          /\ \E n \in rcFile..TotalSize : rcFile' = n
          /\ rcCorrupt' = (rcCorrupt \/ (rcStatus = 200 /\ rcPos > 0))
          /\ rcPc' = "errclean"
    /\ UNCHANGED <<rcTemp, rcDest, rcGood, rcRanges, rcRuns, rcPos, rcStatus>>
    /\ UNCHANGED rcRest

\* the archive file is unpacked into the scratch directory, removed, and
\* the scratch directory becomes the destination; a file that is not the
\* archive does not unpack
RecoverExtract ==
    /\ rcPc = "extract"
    /\ \/ /\ ~rcCorrupt
          /\ rcFile' = 0
          /\ rcTemp' = FALSE
          /\ rcDest' = TRUE
          /\ rcPc' = "ready"
       \/ /\ rcCorrupt \/ ~rcGood
          /\ rcPc' = "errclean"
          /\ UNCHANGED <<rcFile, rcTemp, rcDest>>
    /\ UNCHANGED <<rcCorrupt, rcGood, rcRanges, rcRuns, rcPos, rcStatus>>
    /\ UNCHANGED rcRest

\* download_and_extract: result.is_err(): the scratch directory is removed;
\* the archive file stays
RecoverErrorCleanup ==
    /\ rcPc = "errclean"
    /\ rcTemp' = FALSE
    /\ rcPc' = "failed"
    /\ UNCHANGED <<rcFile, rcCorrupt, rcDest, rcGood, rcRanges, rcRuns,
                   rcPos, rcStatus>>
    /\ UNCHANGED rcRest

\* the process is killed or the machine loses power
RecoverKill ==
    /\ RcRunning
    /\ ~rcGood
    /\ rcPc' = "killed"
    /\ UNCHANGED <<rcFile, rcCorrupt, rcTemp, rcDest, rcGood, rcRanges,
                   rcRuns, rcPos, rcStatus>>
    /\ UNCHANGED rcRest

\* the tool is invoked again on the same cache directory; the run has a
\* working network and is left undisturbed, or not
RecoverNextRun ==
    /\ ~RcRunning
    /\ rcRuns < MaxRuns
    /\ rcRuns' = rcRuns + 1
    /\ rcGood' \in BOOLEAN
    /\ rcPc' = "setup"
    /\ rcPos' = 0
    /\ rcStatus' = 0
    /\ UNCHANGED <<rcFile, rcCorrupt, rcTemp, rcDest, rcRanges>>
    /\ UNCHANGED rcRest

InitRecover ==
    /\ rcPc = "setup"
    /\ rcFile = 0
    /\ rcCorrupt = FALSE
    /\ rcTemp = FALSE
    /\ rcDest = FALSE
    /\ rcGood \in BOOLEAN
    /\ rcRanges \in BOOLEAN
    /\ rcRuns = 1
    /\ rcPos = 0
    /\ rcStatus = 0
    /\ DlIdle
    /\ ExIdle
    /\ OrIdle
    /\ EnvIdle
    /\ RnIdle
    /\ XpIdle
    /\ FdIdle
    /\ FfIdle
    /\ ZpIdle

\* the steps of the program
RecoverStep ==
    \/ RecoverSetup
    \/ RecoverProbe
    \/ RecoverRequest
    \/ RecoverStream
    \/ RecoverExtract
    \/ RecoverErrorCleanup

NextRecover ==
    \/ RecoverStep
    \/ RecoverKill
    \/ RecoverNextRun

SpecRecover == InitRecover /\ [][NextRecover]_vars

\* a process that is not killed goes on: every await of the run returns,
\* the requests within the five minutes of the client's timeout
SpecRecoverFair == SpecRecover /\ WF_vars(RecoverStep)

\* C29: a run with a working network that is left undisturbed provisions
\* the toolchain, whatever the runs before it have left on disk
C29_LaterRunRecovers ==
    (rcPc = "setup" /\ rcGood) ~> (rcPc = "ready")

\* the same for a server that supports ranges and an archive file that is
\* shorter than the archive
L29_RecoversFromPartialArchive ==
    (rcPc = "setup" /\ rcGood /\ rcRanges /\ rcFile < TotalSize)
        ~> (rcPc = "ready")

(***************************************************************************)
(* Downloader: resume, retry and the destination file                      *)
(***************************************************************************)
\* the temp file held a proper, non-empty part of the resource at start
ResumeCase ==
    /\ startTmp.exists
    /\ already > 0
    /\ already < TotalSize
    /\ IsPrefixOf(startTmp.data, Resource)

\* C1: a download started with N bytes (0 < N < T) of the resource in
\* <dest>.tmp sends Range: bytes=N- and, when it succeeds, leaves a
\* destination of exactly the T bytes of the resource
C1_ResumedDownloadIdentical ==
    (pc = "done" /\ ResumeCase)
        => (firstRange = already /\ dest = FileOf(Resource))

\* the same for a server that honours the Range header
L1_ResumedDownloadWithRanges ==
    (pc = "done" /\ ResumeCase /\ ~rangedFull)
        => (firstRange = already /\ dest = FileOf(Resource))

\* C2: the destination is changed by nothing but the rename, which happens
\* after the body stream reached its end and puts the whole temp file in
\* place; chunks are written to the temp file only. Whatever step fails or
\* is killed, the destination is either as it was before the call or the
\* completely received file
C2_DestinationOnlyByRename ==
    /\ [](dest \in {NoFile, FileOf(OldData)} \/ (pc = "done" /\ streamDone))
    /\ [][dest' # dest =>
            /\ pc = "rename"
            /\ pc' = "done"
            /\ streamDone
            /\ tmp.exists
            /\ dest' = tmp]_vars

\* a run killed or failed after body bytes were written: the bytes are in
\* the temp file, the destination is untouched
W2_PartialOnlyInTemp ==
    /\ pc \in {"killed", "failed"}
    /\ tmp.exists
    /\ Len(tmp.data) > Len(startTmp.data)
    /\ Len(tmp.data) < TotalSize
    /\ dest \in {NoFile, FileOf(OldData)}

\* C5: a 5xx response is retried: it ends the fetch only when the retry
\* attempts are used up
C5_ServerErrorIsRetried ==
    (pc = "failed" /\ result.kind = "response" /\ result.status >= 500)
        => reqAttempt = MAX_RETRIES

\* a fatal result: a 4xx status or a URL that does not parse
Fatal(r) ==
    \/ (r.kind = "response" /\ r.status >= 400 /\ r.status <= 499)
    \/ r.kind = "builder"

\* C6: a fatal result ends the fetch at once: the run is failed, no retry
\* attempt was consumed by it, no backoff sleep was started, and a failed
\* run issues no further GET
C6_FatalReturnsImmediately ==
    /\ [](Fatal(result) => (pc = "failed" /\ delay = 0))
    /\ [][(pc = "await" /\ Fatal(result')) =>
            (pc' = "failed" /\ reqAttempt' = reqAttempt /\ delay' = 0)]_vars
    /\ [][pc = "failed" => (pc' = "failed" /\ inflight' = inflight)]_vars

\* a 4xx answer met while retry attempts were still left
W6_FatalWithAttemptsLeft ==
    /\ pc = "failed"
    /\ Fatal(result)
    /\ reqAttempt < MAX_RETRIES

\* C7 as stated: after MAX_RETRIES consecutive retryable failures the fetch
\* has returned an error and sends nothing more
C7_FailsAfterMaxRetriesFailures ==
    consecFail >= MAX_RETRIES => pc = "failed"

\* C7 amended: the fetch returns an error after MAX_RETRIES + 1 consecutive
\* retryable send failures (the first attempt and MAX_RETRIES retries) and
\* sends nothing more; a retryable send error is surfaced only then
C7_FailsAfterMaxRetriesPlusOne ==
    /\ consecFail <= MAX_RETRIES + 1
    /\ consecFail = MAX_RETRIES + 1 => pc = "failed"
    /\ (pc = "failed" /\ result.kind \in {"timeout", "connect", "request"})
           => consecFail = MAX_RETRIES + 1
    /\ pc \in {"send", "await", "backoff"} => consecFail <= MAX_RETRIES

\* the attempt budget of one request is used up
W7_BudgetExhausted ==
    /\ pc = "failed"
    /\ consecFail = MAX_RETRIES + 1
    /\ result.kind \in {"timeout", "connect", "request"}

\* C8: when a ranged GET is answered 200, the finished file is exactly the
\* T bytes of the resource
C8_FullReplyRestartsFromZero ==
    (pc = "done" /\ rangedFull) => dest = FileOf(Resource)

\* C9: after a stream break the next GET asks for the bytes from the end of
\* the temp file on, reopening the file keeps what was written, and the
\* stream error is returned only at the break that follows MAX_RETRIES
\* retried ones
C9_StreamBreakResumesAtOffset ==
    /\ []((pc = "await" /\ attempt > 0) =>
             (tmp.exists /\ inflight = Len(tmp.data)
                         /\ downloaded = Len(tmp.data)))
    /\ [](breaks <= MAX_RETRIES + 1)
    /\ []((pc = "failed" /\ result.kind = "stream")
             => breaks = MAX_RETRIES + 1)
    /\ [](pc = "sbackoff" => (breaks <= MAX_RETRIES /\ attempt = breaks))
    /\ [][(pc = "open" /\ pc' = "stream" /\ attempt > 0)
             => tmp'.data = tmp.data]_vars

\* a GET sent after a stream break that carries on behind the bytes
\* written before the break
W9_ResumedAfterBreak ==
    /\ pc = "await"
    /\ attempt > 0
    /\ inflight > already
    /\ inflight = Len(tmp.data)


====
